---- MODULE Spec2Model ----
(***************************************************************************)
(* Model of the reconcile pipeline of afry_arcgis2ifc:                     *)
(*   src/afry_bimshape_lib.py  get_matching_style (Style Resolver)         *)
(*   src/copy_properties.py    find_overlapping_bbox (Overlap Matcher),    *)
(*                             copy_properties (Property Copier),          *)
(*                             copy_matching_properties,                   *)
(*                             apply_style_to_element (Style Applier),     *)
(*                             get_geometry_and_location and               *)
(*                             get_shape_bbox_centroid (Geometry           *)
(*                             Extractor), main (the reconcile run)        *)
(*                                                                         *)
(* Python strings that the code inspects (strip, startswith, float()) are  *)
(* sequences of one-character strings; strings the code only passes along  *)
(* (ids, style names) are TLA+ strings.  Python dicts are sequences of     *)
(* entries in insertion order with pairwise distinct keys.                 *)
(***************************************************************************)
EXTENDS Integers, Sequences, FiniteSets, TLC

VARIABLES
    pc,              \* "ready" before the call under study, "returned" after it
    \* ---- get_matching_style(attributes, styles_info)
    attributes,      \* dict name -> value, as <<[key, value], ...>>
    styles_info,     \* dict style name -> {attribute, values}, as <<[name, attribute, values], ...>>
    matching_style,  \* outcome of the call (returned name, None, or the exception raised)
    rule_log,        \* what the loop decided for each rule it visited, in order
    \* ---- find_overlapping_bbox(bboxes, centroids)
    bboxes,          \* dict id -> record of the footprint file, as <<[id, centroid, bounds], ...>>
    centroids,       \* dict id -> record of the target file
    overlapping,     \* returned mapping, as <<[id, matches], ...>>
    \* ---- copy_properties / copy_matching_properties / apply_style_to_element
    source_elems,    \* elements of the footprint file: <<[id, IsDefinedBy], ...>>
    faults,          \* per source element and relation: the toolkit call that raises, if any
    target_elems,    \* elements of the target file: <<[id, Representation, attach_fails], ...>>
    target_file,     \* entities of the target file: [props, psets, rels, styled]
    file_before,     \* target_file as it was when the call began
    copy_result,     \* outcome of the call: [exc, styled_count, pairs, reported]
    \* ---- get_geometry_and_location(ifc_file) / get_shape_bbox_centroid(ifc_file)
    products,        \* ifc_file.by_type('IfcProduct'): <<[id, opening, shape], ...>>
    geometry_data,   \* outcome of the call: [fn, data, exc]
    \* ---- main()
    run,             \* the run of main: [args, done, error, written]
    \* ---- gis2bim: process_shapefiles / main()
    shapefiles,      \* the shapefiles of the input folder: <<<<[geometry, geom_type, attributes, attach_fails], ...>>, ...>>
    ifc_file,        \* entities of the output file: [elements, props, psets, rels, contained, styles, styled]
    conversion       \* the run of the conversion: [style_file, document, step, exc, reported, unstyled, rows, written]

styleVars == <<attributes, styles_info, matching_style, rule_log>>
matchVars == <<bboxes, centroids, overlapping>>
copyVars == <<source_elems, faults, target_elems, target_file, file_before, copy_result>>
extractVars == <<products, geometry_data>>
convertVars == <<shapefiles, ifc_file, conversion>>
vars == <<pc, attributes, styles_info, matching_style, rule_log, bboxes, centroids, overlapping,
          source_elems, faults, target_elems, target_file, file_before, copy_result,
          products, geometry_data, run, shapefiles, ifc_file, conversion>>

----------------------------------------------------------------------------
(* Bounds of the model *)

MaxAttrs == 2
MaxRules == 2
MaxSources == 2
MaxTargets == 2
MaxCoord == 4
MaxPsets == 2

----------------------------------------------------------------------------
(* Outcomes of a call *)

\* return v, for a str v
Ret(v) == [kind |-> "return", val |-> v]
\* return None: no str, whatever its characters, is None
RetNone == [kind |-> "return_none", val |-> ""]
Raise(e) == [kind |-> "raise", val |-> e]
NotCalled == [kind |-> "not_called", val |-> ""]

----------------------------------------------------------------------------
(* Python values: str, int, float (fixed point, in tenths), float nan,     *)
(* float inf, None.                                                        *)

StrV(s) == [t |-> "str", s |-> s, n |-> 0]
IntV(n) == [t |-> "int", s |-> <<>>, n |-> n]
FloatV(tenths) == [t |-> "float", s |-> <<>>, n |-> tenths]
NanV == [t |-> "nan", s |-> <<>>, n |-> 0]
InfV == [t |-> "inf", s |-> <<>>, n |-> 0]
NoneV == [t |-> "none", s |-> <<>>, n |-> 0]

(* str.strip() with no argument removes the leading and trailing characters *)
(* for which str.isspace() holds. They are written here as the characters   *)
(* themselves: space, tab, line feed, carriage return, form feed, U+000B,   *)
(* U+001C..U+001F, U+0085, U+00A0 and U+1680. The remaining ones            *)
(* (U+2000..U+200A, U+2028, U+2029, U+202F, U+205F, U+3000) are not         *)
(* accepted in a string of a module, so no value of the model holds them.   *)
AsciiWhitespace == {" ", "\t", "\n", "\r", "\f", ""}
WideWhitespace == {"", " ", " "}
Whitespace == AsciiWhitespace \cup {"", "", "", ""} \cup WideWhitespace

\* s without its leading characters that are in chars
LStripOf(s, chars) ==
    IF \A i \in DOMAIN s : s[i] \in chars THEN <<>>
    ELSE SubSeq(s, CHOOSE i \in DOMAIN s :
                        s[i] \notin chars /\ \A j \in 1..(i - 1) : s[j] \in chars,
                Len(s))

\* s without its trailing characters that are in chars
RStripOf(s, chars) ==
    IF \A i \in DOMAIN s : s[i] \in chars THEN <<>>
    ELSE SubSeq(s, 1, CHOOSE i \in DOMAIN s :
                        s[i] \notin chars /\ \A j \in (i + 1)..Len(s) : s[j] \in chars)

LStrip(s) == LStripOf(s, Whitespace)

RStrip(s) == RStripOf(s, Whitespace)

Strip(s) == RStrip(LStrip(s))

\* str.startswith(prefix)
StartsWith(s, prefix) ==
    /\ Len(prefix) <= Len(s)
    /\ SubSeq(s, 1, Len(prefix)) = prefix

\* the digits str() writes
DigitChars == <<"0", "1", "2", "3", "4", "5", "6", "7", "8", "9">>

(* The decimal digits float() reads: the ASCII digits and the digits of    *)
(* other scripts (Unicode category Nd), each row zero to nine. The rows    *)
(* after the first are Extended Arabic-Indic, NKo, Bengali, Gujarati,      *)
(* Tamil, Kannada, Sinhala Lith, Lao, Myanmar Shan, Khmer, New Tai Lue,    *)
(* Tai Tham Hora, Tai Tham Tham, Sundanese, Saurashtra, Javanese, Myanmar  *)
(* Tai Laing and Meetei Mayek; the digits of the remaining scripts are not *)
(* accepted in a string of a module.                                       *)
DecimalDigits == <<
    <<"0", "1", "2", "3", "4", "5", "6", "7", "8", "9">>,
    <<"۰", "۱", "۲", "۳", "۴", "۵", "۶", "۷", "۸", "۹">>,
    <<"߀", "߁", "߂", "߃", "߄", "߅", "߆", "߇", "߈", "߉">>,
    <<"০", "১", "২", "৩", "৪", "৫", "৬", "৭", "৮", "৯">>,
    <<"૦", "૧", "૨", "૩", "૪", "૫", "૬", "૭", "૮", "૯">>,
    <<"௦", "௧", "௨", "௩", "௪", "௫", "௬", "௭", "௮", "௯">>,
    <<"೦", "೧", "೨", "೩", "೪", "೫", "೬", "೭", "೮", "೯">>,
    <<"෦", "෧", "෨", "෩", "෪", "෫", "෬", "෭", "෮", "෯">>,
    <<"໐", "໑", "໒", "໓", "໔", "໕", "໖", "໗", "໘", "໙">>,
    <<"႐", "႑", "႒", "႓", "႔", "႕", "႖", "႗", "႘", "႙">>,
    <<"០", "១", "២", "៣", "៤", "៥", "៦", "៧", "៨", "៩">>,
    <<"᧐", "᧑", "᧒", "᧓", "᧔", "᧕", "᧖", "᧗", "᧘", "᧙">>,
    <<"᪀", "᪁", "᪂", "᪃", "᪄", "᪅", "᪆", "᪇", "᪈", "᪉">>,
    <<"᪐", "᪑", "᪒", "᪓", "᪔", "᪕", "᪖", "᪗", "᪘", "᪙">>,
    <<"᮰", "᮱", "᮲", "᮳", "᮴", "᮵", "᮶", "᮷", "᮸", "᮹">>,
    <<"꣐", "꣑", "꣒", "꣓", "꣔", "꣕", "꣖", "꣗", "꣘", "꣙">>,
    <<"꧐", "꧑", "꧒", "꧓", "꧔", "꧕", "꧖", "꧗", "꧘", "꧙">>,
    <<"꧰", "꧱", "꧲", "꧳", "꧴", "꧵", "꧶", "꧷", "꧸", "꧹">>,
    <<"꯰", "꯱", "꯲", "꯳", "꯴", "꯵", "꯶", "꯷", "꯸", "꯹">> >>

IsDigit(c) == \E r \in DOMAIN DecimalDigits : \E i \in 1..10 : DecimalDigits[r][i] = c
DigitVal(c) ==
    (CHOOSE i \in 1..10 : \E r \in DOMAIN DecimalDigits : DecimalDigits[r][i] = c) - 1
AllDigits(s) == \A i \in DOMAIN s : IsDigit(s[i])

\* the decimal digits of |n| as str() writes them; a negative n is never negated,
\* the least integer of the model having no negation in it
RECURSIVE MagnitudeStr(_)
MagnitudeStr(n) ==
    LET last == IF n < 0 THEN (10 - (n % 10)) % 10 ELSE n % 10
        rest == IF n < 0 THEN (n + last) \div 10 ELSE n \div 10
    IN  IF rest = 0 THEN <<DigitChars[last + 1]>>
        ELSE MagnitudeStr(rest) \o <<DigitChars[last + 1]>>

\* n / d rounded toward zero, as Python's int() truncates, for d > 0: the
\* quotient rounded down, and one more when n is negative and not a multiple of d
TruncDiv(n, d) == IF n < 0 /\ n % d # 0 THEN n \div d + 1 ELSE n \div d

(* Natural numbers of any size, as the sequence of their decimal digits    *)
(* (numbers 0..9), most significant first and without leading zeros; zero  *)
(* is <<>>. Python's int is unbounded and float() reads literals of any    *)
(* length, so int(float(s)) is computed on these.                          *)
BigTrim(a) ==
    IF \A i \in DOMAIN a : a[i] = 0 THEN <<>>
    ELSE SubSeq(a, CHOOSE i \in DOMAIN a : a[i] # 0 /\ \A j \in 1..(i - 1) : a[j] = 0, Len(a))

\* the function f on 1..n as a sequence
AsSeq(f, n) == SubSeq(f, 1, n)

BigLess(a, b) ==
    \/ Len(a) < Len(b)
    \/ /\ Len(a) = Len(b)
       /\ \E i \in DOMAIN a : a[i] # b[i]
       /\ LET first == CHOOSE i \in DOMAIN a : a[i] # b[i] /\ \A j \in 1..(i - 1) : a[j] = b[j]
          IN  a[first] < b[first]

\* 2 * a: a digit receives a carry exactly when the digit after it is 5 or more
BigDouble(a) ==
    LET b == AsSeq([i \in 1..Len(a) |->
                (2 * a[i] + (IF i < Len(a) /\ a[i + 1] >= 5 THEN 1 ELSE 0)) % 10], Len(a))
    IN  IF a # <<>> /\ a[1] >= 5 THEN <<1>> \o b ELSE b

\* a div 2: a digit receives ten exactly when the digit before it is odd
BigHalf(a) ==
    BigTrim(AsSeq([i \in 1..Len(a) |->
                (a[i] + (IF i > 1 /\ a[i - 1] % 2 = 1 THEN 10 ELSE 0)) \div 2], Len(a)))

BigOdd(a) == a # <<>> /\ a[Len(a)] % 2 = 1

\* a + 1: the trailing nines become zeros and the digit before them grows by one
BigInc(a) ==
    LET last == IF \A i \in DOMAIN a : a[i] = 9 THEN 0
                ELSE CHOOSE i \in DOMAIN a : a[i] # 9 /\ \A j \in (i + 1)..Len(a) : a[j] = 9
        b == AsSeq([i \in 1..Len(a) |->
                    IF i < last THEN a[i] ELSE IF i = last THEN a[i] + 1 ELSE 0], Len(a))
    IN  IF last = 0 THEN <<1>> \o b ELSE b

\* a * 2^k
RECURSIVE BigShiftLeft(_, _)
BigShiftLeft(a, k) ==
    IF k = 0 \/ a = <<>> THEN a
    ELSE IF k = 1 THEN BigDouble(a)
    ELSE BigShiftLeft(BigShiftLeft(a, k \div 2), k - k \div 2)

\* a * 2^k when that is at most cap, some number above cap otherwise
RECURSIVE BigShiftLeftCapped(_, _, _)
BigShiftLeftCapped(a, k, cap) ==
    IF k = 0 \/ BigLess(cap, a) THEN a
    ELSE IF k = 1 THEN BigDouble(a)
    ELSE BigShiftLeftCapped(BigShiftLeftCapped(a, k \div 2, cap), k - k \div 2, cap)

\* st.a div 2^k, with the guard bit (the last bit shifted out) and the sticky
\* bit (whether anything shifted out before the guard bit was not zero)
ShiftOne(st) == [a |-> BigHalf(st.a), guard |-> BigOdd(st.a), sticky |-> st.sticky \/ st.guard]

RECURSIVE BigShiftRight(_, _)
BigShiftRight(st, k) ==
    IF k = 0 THEN st
    ELSE IF k = 1 \/ st.a = <<>> THEN ShiftOne(st)
    ELSE BigShiftRight(BigShiftRight(st, k \div 2), k - k \div 2)

\* a as an integer, -a when neg; built from the sign on, so that -2^31 is reached
\* without passing through 2^31
RECURSIVE BigVal(_, _)
BigVal(a, neg) ==
    IF a = <<>> THEN 0
    ELSE 10 * BigVal(SubSeq(a, 1, Len(a) - 1), neg) + (IF neg THEN -a[Len(a)] ELSE a[Len(a)])

\* the number of binary digits of a: a has at least 3.321928 binary digits for
\* each decimal digit after its first, and what is left of a without that many
\* is less than 32
BitLen(a) ==
    IF a = <<>> THEN 0
    ELSE LET low == ((Len(a) - 1) * 3321928) \div 1000000
             top == BigVal(BigShiftRight([a |-> a, guard |-> FALSE, sticky |-> FALSE], low).a, FALSE)
         IN  low + (CHOOSE b \in 1..5 : 2^(b - 1) <= top /\ top < 2^b)

\* the largest integer of the model, 2^31 - 1, and 2^53
MaxModelInt == <<2, 1, 4, 7, 4, 8, 3, 6, 4, 7>>
TwoTo53 == <<9, 0, 0, 7, 1, 9, 9, 2, 5, 4, 7, 4, 0, 9, 9, 2>>

(* A Python int as a value of the model: n is the integer and wide is      *)
(* empty when it is in -2^31 .. 2^31 - 1; otherwise wide is the integer as *)
(* str() writes it (the sign, then the decimal digits) and n is 0.         *)
PyInt(a, neg) ==
    IF ~BigLess(IF neg THEN BigInc(MaxModelInt) ELSE MaxModelInt, a)
    THEN [n |-> BigVal(a, neg), wide |-> <<>>]
    ELSE [n |-> 0,
          wide |-> (IF neg THEN <<"-">> ELSE <<>>)
                    \o AsSeq([i \in 1..Len(a) |-> DigitChars[a[i] + 1]], Len(a))]

(* IEEE 754 binary64, round to nearest, ties to even, of n + r / 10^m      *)
(* where n is a natural number and r the m digits after the point; the     *)
(* result of int() on it: inf tells that the double is infinite, and val   *)
(* is the double truncated toward zero otherwise.                          *)
\* n < 2^53: n and n + 1 are doubles, and the doubles between them are
\* 2^(bits - 53) apart where bits is the length of n in binary (2^-53 for n = 0):
\* the double is n + 1 when 1 - r / 10^m is less than half of that, or is half of
\* that and n + 1 has the even significand.
RoundsUp(n, r, m, bits) ==
    LET gap == BigInc(BigTrim(AsSeq([i \in 1..m |-> 9 - r[i]], m)))
        one == <<1>> \o AsSeq([i \in 1..m |-> 0], m)
        scaled == BigShiftLeftCapped(gap, 54 - bits, one)
    IN  \/ BigLess(scaled, one)
        \/ scaled = one /\ (bits < 53 \/ BigOdd(n))

RoundSmall(n, r, m) ==
    [inf |-> FALSE,
     val |-> IF BigTrim(r) # <<>> /\ RoundsUp(n, r, m, BitLen(n)) THEN BigInc(n) ELSE n]

\* n >= 2^53: the doubles are 2^q apart, q = bits - 53; the sum is rounded to
\* a multiple of 2^q, and to infinity when that is 2^1024 or more
RoundShifted(sh, q) ==
    LET up == sh.guard /\ (sh.sticky \/ BigOdd(sh.a))
        significand == IF up THEN BigInc(sh.a) ELSE sh.a
    IN  IF q = 971 /\ significand = TwoTo53 THEN [inf |-> TRUE, val |-> <<>>]
        ELSE [inf |-> FALSE, val |-> BigShiftLeft(significand, q)]

RoundLarge(n, r, bits) ==
    IF bits > 1024 THEN [inf |-> TRUE, val |-> <<>>]
    ELSE RoundShifted(BigShiftRight([a |-> n, guard |-> FALSE, sticky |-> BigTrim(r) # <<>>],
                                    bits - 53),
                      bits - 53)

RoundToDouble(n, r, m) ==
    IF BigLess(n, TwoTo53) THEN RoundSmall(n, r, m)
    ELSE IF Len(n) > 309 THEN [inf |-> TRUE, val |-> <<>>]
    ELSE RoundLarge(n, r, BitLen(n))

(* float(s) for a str s. An underscore may stand between two digits and   *)
(* is dropped; surrounding whitespace is dropped; then an optional sign    *)
(* and either inf, infinity or nan in any letter case, or digits with at   *)
(* most one point and at least one digit, and an optional exponent: e or   *)
(* E, an optional sign, one digit or more.                                 *)
(* Result: cls is "fin" (ip and wide = int() of the float, as PyInt gives  *)
(* it), "inf", "nan" or "error" (float() raises ValueError).               *)
\* what float() strips: C isspace() and the whitespace beyond ASCII
FloatWhitespace == AsciiWhitespace \cup WideWhitespace

\* the lower-case form of an ASCII letter, any other character unchanged
Lower(c) ==
    LET upper == <<"A", "B", "C", "D", "E", "F", "G", "H", "I", "J", "K", "L", "M",
                   "N", "O", "P", "Q", "R", "S", "T", "U", "V", "W", "X", "Y", "Z">>
        lower == <<"a", "b", "c", "d", "e", "f", "g", "h", "i", "j", "k", "l", "m",
                   "n", "o", "p", "q", "r", "s", "t", "u", "v", "w", "x", "y", "z">>
    IN  IF \E i \in DOMAIN upper : upper[i] = c
        THEN lower[CHOOSE i \in DOMAIN upper : upper[i] = c]
        ELSE c

LowerStr(s) == AsSeq([i \in 1..Len(s) |-> Lower(s[i])], Len(s))

\* every underscore has a digit before it and a digit after it
UnderscoresValid(s) ==
    \A i \in DOMAIN s :
        s[i] = "_" => i > 1 /\ i < Len(s) /\ IsDigit(s[i - 1]) /\ IsDigit(s[i + 1])

RemoveUnderscores(s) ==
    IF \A i \in DOMAIN s : s[i] # "_" THEN s ELSE SelectSeq(s, LAMBDA c : c # "_")

\* the position of the first character of s that is in chars, Len(s) + 1 when there is none
FirstOf(s, chars) ==
    IF \A i \in DOMAIN s : s[i] \notin chars THEN Len(s) + 1
    ELSE CHOOSE i \in DOMAIN s : s[i] \in chars /\ \A j \in 1..(i - 1) : s[j] \notin chars

\* the values of the digit characters of s
DigitVals(s) == AsSeq([i \in 1..Len(s) |-> DigitVal(s[i])], Len(s))

\* the decimal exponent written by digits: the number they write, and 1100000000
\* when they are more than nine after the leading zeros (the conversion keeps no
\* larger exponent; a literal has fewer digits than that, so it is zero or
\* infinite with the one as with the other)
ExponentVal(digits) ==
    IF Len(BigTrim(digits)) > 9 THEN 1100000000 ELSE BigVal(BigTrim(digits), FALSE)

Parsed(cls, int) == [cls |-> cls, ip |-> int.n, wide |-> int.wide]

\* the digits d (without leading zeros) times 10^e10
ParseScaled(d, e10, neg) ==
    IF d = <<>> \/ Len(d) + e10 < 0 THEN Parsed("fin", PyInt(<<>>, FALSE))
    ELSE IF Len(d) + e10 > 309 THEN Parsed("inf", PyInt(<<>>, FALSE))
    ELSE LET n == IF e10 >= 0 THEN d \o AsSeq([i \in 1..e10 |-> 0], e10)
                  ELSE SubSeq(d, 1, Len(d) + e10)
             r == IF e10 >= 0 THEN <<>> ELSE SubSeq(d, Len(d) + e10 + 1, Len(d))
             f == RoundToDouble(n, r, Len(r))
         IN  IF f.inf THEN Parsed("inf", PyInt(<<>>, FALSE))
             ELSE Parsed("fin", PyInt(f.val, neg))

\* the digits before and after the point, and the exponent
ParseDigits(intpart, frac, neg, exponent) ==
    IF AllDigits(intpart) /\ AllDigits(frac) /\ Len(intpart) + Len(frac) >= 1
    THEN ParseScaled(BigTrim(DigitVals(intpart \o frac)), exponent - Len(frac), neg)
    ELSE Parsed("error", PyInt(<<>>, FALSE))

\* the exponent part: nothing, or e or E, an optional sign and digits
ParseExponent(part) ==
    IF part = <<>> THEN [ok |-> TRUE, val |-> 0]
    ELSE LET signed == Len(part) >= 2 /\ part[2] \in {"+", "-"}
             digits == SubSeq(part, IF signed THEN 3 ELSE 2, Len(part))
         IN  IF digits # <<>> /\ AllDigits(digits)
             THEN [ok |-> TRUE,
                   val |-> IF signed /\ part[2] = "-"
                           THEN -ExponentVal(DigitVals(digits))
                           ELSE ExponentVal(DigitVals(digits))]
             ELSE [ok |-> FALSE, val |-> 0]

ParseNumber(mantissa, neg, dot, exponent) ==
    IF exponent.ok
    THEN ParseDigits(SubSeq(mantissa, 1, dot - 1), SubSeq(mantissa, dot + 1, Len(mantissa)),
                     neg, exponent.val)
    ELSE Parsed("error", PyInt(<<>>, FALSE))

\* the literal after its sign
ParseBody(body, neg, e) ==
    IF LowerStr(body) \in {<<"i", "n", "f">>, <<"i", "n", "f", "i", "n", "i", "t", "y">>}
        THEN Parsed("inf", PyInt(<<>>, FALSE))
    ELSE IF LowerStr(body) = <<"n", "a", "n">>
        THEN Parsed("nan", PyInt(<<>>, FALSE))
    ELSE ParseNumber(SubSeq(body, 1, e - 1), neg, FirstOf(SubSeq(body, 1, e - 1), {"."}),
                     ParseExponent(SubSeq(body, e, Len(body))))

\* the literal without its surrounding whitespace
ParseSigned(t) ==
    IF t # <<>> /\ Head(t) \in {"+", "-"}
    THEN ParseBody(Tail(t), Head(t) = "-", FirstOf(Tail(t), {"e", "E"}))
    ELSE ParseBody(t, FALSE, FirstOf(t, {"e", "E"}))

ParseFloat(s) ==
    IF UnderscoresValid(s)
    THEN ParseSigned(RStripOf(LStripOf(RemoveUnderscores(s), FloatWhitespace), FloatWhitespace))
    ELSE Parsed("error", PyInt(<<>>, FALSE))

(* int(float(v)): exc is "" and n, wide the integer (as PyInt gives it),   *)
(* or exc names the exception. float(None) raises TypeError, float("abc")  *)
(* ValueError, int(nan) ValueError, int(inf) OverflowError.                *)
Cast(exc, n, wide) == [exc |-> exc, n |-> n, wide |-> wide]

IntOfParsed(f) ==
    CASE f.cls = "fin" -> Cast("", f.ip, f.wide)
      [] f.cls = "nan" -> Cast("ValueError", 0, <<>>)
      [] f.cls = "inf" -> Cast("OverflowError", 0, <<>>)
      [] f.cls = "error" -> Cast("ValueError", 0, <<>>)

IntOfFloat(v) ==
    CASE v.t = "int" -> Cast("", v.n, <<>>)
      [] v.t = "float" -> Cast("", TruncDiv(v.n, 10), <<>>)
      [] v.t = "nan" -> Cast("ValueError", 0, <<>>)
      [] v.t = "inf" -> Cast("OverflowError", 0, <<>>)
      [] v.t = "none" -> Cast("TypeError", 0, <<>>)
      [] v.t = "str" -> IntOfParsed(ParseFloat(v.s))

\* str(v)
PyStr(v) ==
    CASE v.t = "str" -> v.s
      [] v.t = "int" -> (IF v.n < 0 THEN <<"-">> ELSE <<>>) \o MagnitudeStr(v.n)
      [] v.t = "float" ->
            LET d == MagnitudeStr(v.n)
            IN  (IF v.n < 0 THEN <<"-">> ELSE <<>>)
                    \o (IF Len(d) = 1 THEN <<"0">> ELSE SubSeq(d, 1, Len(d) - 1))
                    \o <<".", d[Len(d)]>>
      [] v.t = "nan" -> <<"n", "a", "n">>
      [] v.t = "inf" -> <<"i", "n", "f">>
      [] v.t = "none" -> <<"N", "o", "n", "e">>

\* k == v for a Python int k: equal to an int or float of the same value, to nothing else
IntEq(k, v) ==
    \/ v.t = "int" /\ v.n = k
    \/ v.t = "float" /\ v.n % 10 = 0 /\ v.n \div 10 = k

\* k in allowed_values (a list)
IntIn(k, allowed_values) == \E i \in DOMAIN allowed_values : IntEq(k, allowed_values[i])

\* c in allowed_values for the integer of a cast c that succeeded: every int and
\* float of the model is in -2^31 .. 2^31 - 1, so an integer outside equals none of them
CastIn(c, allowed_values) == c.wide = <<>> /\ IntIn(c.n, allowed_values)

----------------------------------------------------------------------------
(* Python dicts as sequences of [key, value] entries *)

HasKey(d, k) == \E i \in DOMAIN d : d[i].key = k
Lookup(d, k) == d[CHOOSE i \in DOMAIN d : d[i].key = k].value

\* d[k] = v: an existing key keeps its position, a new key is appended
DictSet(d, k, v) ==
    IF HasKey(d, k)
    THEN [i \in DOMAIN d |-> IF d[i].key = k THEN [key |-> k, value |-> v] ELSE d[i]]
    ELSE Append(d, [key |-> k, value |-> v])

----------------------------------------------------------------------------
(* get_matching_style, src/afry_bimshape_lib.py:372-396 *)

\* cleaned_attributes = {k.strip(): v for k, v in attributes.items()}
RECURSIVE CleanedAttributes(_)
CleanedAttributes(attrs) ==
    IF attrs = <<>> THEN <<>>
    ELSE LET last == attrs[Len(attrs)]
         IN  DictSet(CleanedAttributes(SubSeq(attrs, 1, Len(attrs) - 1)),
                     Strip(last.key), last.value)

Step(step, exc) == [step |-> step, exc |-> exc]

(* mutant of RuleOutcome: the string comparison tried whenever the numeric *)
(* comparison did not match, not only when the cast failed                 *)
RuleOutcomeStringAlways(style_info, cleaned_attributes) ==
    LET attribute_name == Strip(style_info.attribute)
        allowed_values == style_info.values
    IN  IF attribute_name # <<>> /\ HasKey(cleaned_attributes, attribute_name)
        THEN LET attr_value == Lookup(cleaned_attributes, attribute_name)
                 numeric_attr == IntOfFloat(attr_value)
             IN  IF \/ numeric_attr.exc = "" /\ CastIn(numeric_attr, allowed_values)
                    \/ \E i \in DOMAIN allowed_values :
                            PyStr(attr_value) = PyStr(allowed_values[i])
                    \/ allowed_values = <<>>
                 THEN Step("return", "")
                 ELSE Step("continue", "")
        ELSE Step("continue", "")

(* The body of the loop for one rule: "return" (the rule's name is         *)
(* returned), "continue" (the loop goes on to the next rule) or "raise"    *)
(* (an exception other than ValueError and TypeError leaves the call).     *)
\* lines 386-394: the try block, numeric_attr being the outcome of int(float(attr_value))
Compare(attr_value, numeric_attr, allowed_values) ==
    IF numeric_attr.exc = ""
    THEN IF CastIn(numeric_attr, allowed_values) \/ allowed_values = <<>>
         THEN Step("return", "")
         ELSE Step("continue", "")
    ELSE IF numeric_attr.exc \in {"ValueError", "TypeError"}
    THEN IF \/ \E i \in DOMAIN allowed_values : PyStr(attr_value) = PyStr(allowed_values[i])
            \/ allowed_values = <<>>
         THEN Step("return", "")
         ELSE Step("continue", "")
    ELSE Step("raise", numeric_attr.exc)

\* lines 384-394: the rule's trigger attribute is present with value attr_value
CompareValue(attr_value, allowed_values) ==
    Compare(attr_value, IntOfFloat(attr_value), allowed_values)

RuleOutcome(style_info, cleaned_attributes) ==
    LET attribute_name == Strip(style_info.attribute)
    IN  IF attribute_name # <<>> /\ HasKey(cleaned_attributes, attribute_name)
        THEN CompareValue(Lookup(cleaned_attributes, attribute_name), style_info.values)
        ELSE Step("continue", "")

\* for style_name, style_info in styles_info.items(): ...; return None
RECURSIVE StyleLoop(_, _, _, _)

\* what follows the body of the loop for rule i, o being its outcome
AfterRule(styles, cleaned_attributes, i, log, o) ==
    CASE o.step = "return" -> [res |-> Ret(styles[i].name), log |-> Append(log, o)]
      [] o.step = "raise" -> [res |-> Raise(o.exc), log |-> Append(log, o)]
      [] o.step = "continue" -> StyleLoop(styles, cleaned_attributes, i + 1, Append(log, o))

StyleLoop(styles, cleaned_attributes, i, log) ==
    IF i > Len(styles) THEN [res |-> RetNone, log |-> log]
    ELSE AfterRule(styles, cleaned_attributes, i, log,
                   RuleOutcome(styles[i], cleaned_attributes))

GetMatchingStyle(attrs, styles) == StyleLoop(styles, CleanedAttributes(attrs), 1, <<>>)

----------------------------------------------------------------------------
(* Inputs of the Style Resolver *)

\* the attribute names: "type", " type " (equal to "type" once trimmed) and "kind"
k_type == <<"t", "y", "p", "e">>
k_type_padded == <<" ", "t", "y", "p", "e", " ">>
k_kind == <<"k", "i", "n", "d">>

\* "1", "1.7", "1e0", "abc", "inf", "Inf" and the int 2
TypeValues ==
    { StrV(<<"1">>), StrV(<<"1", ".", "7">>), StrV(<<"1", "e", "0">>),
      StrV(<<"a", "b", "c">>), StrV(<<"i", "n", "f">>), StrV(<<"I", "n", "f">>), IntV(2) }

KindValues == { StrV(<<"1">>), StrV(<<"a", "b", "c">>) }

AttrEntries ==
    [key : {k_type, k_type_padded}, value : TypeValues]
        \cup [key : {k_kind}, value : KindValues]

\* trigger attributes of the rules: "type " (trimmed by the resolver), "kind", ""
RuleAttributes == {<<"t", "y", "p", "e", " ">>, k_kind, <<>>}

\* [], [1, 2], [1], ["1", "abc"]
RuleValues ==
    { <<>>, <<IntV(1), IntV(2)>>, <<IntV(1)>>,
      <<StrV(<<"1">>), StrV(<<"a", "b", "c">>)>> }

\* style names are the keys of the JSON object, in the order of the document
StyleNames == <<"A", "B", "C", "D">>

SeqsUpTo(S, n) == UNION {[1..m -> S] : m \in 0..n}

DistinctKeys(d) == \A i, j \in DOMAIN d : i # j => d[i].key # d[j].key

AttributeDicts == {d \in SeqsUpTo(AttrEntries, MaxAttrs) : DistinctKeys(d)}

RuleBodies == [attribute : RuleAttributes, values : RuleValues]

StyleDicts ==
    { [i \in DOMAIN b |-> [name |-> StyleNames[i], attribute |-> b[i].attribute,
                           values |-> b[i].values]] : b \in SeqsUpTo(RuleBodies, MaxRules) }

StyleIdle ==
    /\ attributes = <<>>
    /\ styles_info = <<>>
    /\ matching_style = NotCalled
    /\ rule_log = <<>>

MatchIdle ==
    /\ bboxes = <<>>
    /\ centroids = <<>>
    /\ overlapping = <<>>

EmptyFile == [props |-> <<>>, psets |-> <<>>, rels |-> <<>>, styled |-> <<>>]

NoResult == [exc |-> "", styled_count |-> 0, pairs |-> <<>>, reported |-> <<>>, resolved |-> <<>>]

NoGeometry == [fn |-> "", data |-> <<>>, exc |-> ""]

ExtractIdle ==
    /\ products = <<>>
    /\ geometry_data = NoGeometry

NoRun == [args |-> <<>>, done |-> <<>>, error |-> "", written |-> 0]

MainIdle == run = NoRun

\* ifcopenshell.file(schema="IFC2X3") before any row is processed
NewIfcFile ==
    [elements |-> <<>>, props |-> <<>>, psets |-> <<>>, rels |-> <<>>,
     contained |-> <<>>, styles |-> <<>>, styled |-> <<>>]

NoConversion ==
    [style_file |-> "", document |-> <<>>, step |-> "", exc |-> "", reported |-> <<>>,
     unstyled |-> <<>>, rows |-> 0, written |-> 0]

ConvertIdle ==
    /\ shapefiles = <<>>
    /\ ifc_file = NewIfcFile
    /\ conversion = NoConversion

CopyIdle ==
    /\ source_elems = <<>>
    /\ faults = <<>>
    /\ target_elems = <<>>
    /\ target_file = EmptyFile
    /\ file_before = EmptyFile
    /\ copy_result = NoResult

StyleInit ==
    /\ attributes \in AttributeDicts
    /\ styles_info \in StyleDicts
    /\ matching_style = NotCalled
    /\ rule_log = <<>>
    /\ pc = "ready"
    /\ MatchIdle
    /\ CopyIdle
    /\ ExtractIdle
    /\ MainIdle
    /\ ConvertIdle

CallGetMatchingStyle ==
    /\ pc = "ready"
    /\ pc' = "returned"
    /\ LET r == GetMatchingStyle(attributes, styles_info)
       IN  /\ matching_style' = r.res
           /\ rule_log' = r.log
    /\ UNCHANGED <<attributes, styles_info>>
    /\ UNCHANGED matchVars
    /\ UNCHANGED copyVars
    /\ UNCHANGED <<extractVars, run>>
    /\ UNCHANGED convertVars

StyleNext == CallGetMatchingStyle

SpecStyle == StyleInit /\ [][StyleNext]_vars

----------------------------------------------------------------------------
(* find_overlapping_bbox, src/copy_properties.py:98-113                    *)
(* A record of bboxes is read only for its bounds (xmin, ymin, zmin, xmax, *)
(* ymax, zmax), a record of centroids only for its centroid (x, y, z).     *)
(* A distance d is carried as the integer 4 * d * d, which orders as d     *)
(* does and is exact for integer coordinates.                              *)

\* mutant of Contains: the boundary counted as inside (<= for <)
ContainsClosed(bbox, centroid) ==
    /\ bbox[1] <= centroid[1] /\ centroid[1] <= bbox[4]
    /\ bbox[2] <= centroid[2] /\ centroid[2] <= bbox[5]

\* bbox[0] < centroid[0] < bbox[3] and bbox[1] < centroid[1] < bbox[4]
Contains(bbox, centroid) ==
    /\ bbox[1] < centroid[1] /\ centroid[1] < bbox[4]
    /\ bbox[2] < centroid[2] /\ centroid[2] < bbox[5]

\* mutant of Dist: the norm taken over x, y and z (centroid[:3] for centroid[:2])
DistSpatial(bbox, centroid) ==
    LET dx2 == 2 * centroid[1] - (bbox[1] + bbox[4])
        dy2 == 2 * centroid[2] - (bbox[2] + bbox[5])
        dz2 == 2 * centroid[3] - (bbox[3] + bbox[6])
    IN  dx2 * dx2 + dy2 * dy2 + dz2 * dz2

\* np.linalg.norm(centroid[:2] - [(bbox[0] + bbox[3])/2, (bbox[1] + bbox[4])/2])
Dist(bbox, centroid) ==
    LET dx2 == 2 * centroid[1] - (bbox[1] + bbox[4])
        dy2 == 2 * centroid[2] - (bbox[2] + bbox[5])
    IN  dx2 * dx2 + dy2 * dy2

\* the inner loop: the candidates of one bbox, in the iteration order of centroids
RECURSIVE MatchesOf(_, _)
MatchesOf(bbox, cents) ==
    IF cents = <<>> THEN <<>>
    ELSE LET c == cents[Len(cents)]
             before == MatchesOf(bbox, SubSeq(cents, 1, Len(cents) - 1))
         IN  IF Contains(bbox, c.centroid)
             THEN Append(before, [id |-> c.id, dist |-> Dist(bbox, c.centroid)])
             ELSE before

\* list.sort(key=lambda x: x[1]) is stable: x goes behind every entry with key <= its own
InsertByDist(sorted, x) ==
    LET n == Cardinality({i \in DOMAIN sorted : sorted[i].dist <= x.dist})
    IN  SubSeq(sorted, 1, n) \o <<x>> \o SubSeq(sorted, n + 1, Len(sorted))

\* mutant of SortByDist: the sort left out
SortByDistSkipped(matches) == matches

RECURSIVE SortByDist(_)
SortByDist(matches) ==
    IF matches = <<>> THEN <<>>
    ELSE InsertByDist(SortByDist(SubSeq(matches, 1, Len(matches) - 1)),
                      matches[Len(matches)])

FindOverlappingBbox(boxes, cents) ==
    [i \in DOMAIN boxes |->
        [id |-> boxes[i].id, matches |-> SortByDist(MatchesOf(boxes[i].bounds, cents))]]

(* Inputs of the Overlap Matcher: footprints lie in the plane z = 0, the   *)
(* centroids of the volumes above it; one box has a height, and a few      *)
(* centroids lie at other heights, so that z varies on both sides.         *)
SourceIds == <<"s1", "s2", "s3", "s4">>
TargetIds == <<"t1", "t2", "t3", "t4">>

Bounds ==
    { <<0, 0, 0, MaxCoord, 3, 0>>,
      <<1, 0, 0, MaxCoord - 1, 2, 0>>,
      <<0, 1, 0, MaxCoord, 3, 0>>,
      <<2, 0, 0, 2, 3, 0>>,
      <<0, 0, 0, 4, 4, 2>> }

Centroids ==
    {<<x, y, 2>> : x \in 0..MaxCoord, y \in 0..3}
        \cup { <<2, 1, 0>>, <<2, 2, 3>>, <<1, 1, 3>> }

BboxDicts ==
    { [i \in DOMAIN b |-> [id |-> SourceIds[i], bounds |-> b[i]]] :
        b \in SeqsUpTo(Bounds, MaxSources) }

CentroidDicts ==
    { [i \in DOMAIN c |-> [id |-> TargetIds[i], centroid |-> c[i]]] :
        c \in SeqsUpTo(Centroids, MaxTargets) }

MatchInit ==
    /\ bboxes \in BboxDicts
    /\ centroids \in CentroidDicts
    /\ overlapping = <<>>
    /\ pc = "ready"
    /\ StyleIdle
    /\ CopyIdle
    /\ ExtractIdle
    /\ MainIdle
    /\ ConvertIdle

CallFindOverlappingBbox ==
    /\ pc = "ready"
    /\ pc' = "returned"
    /\ overlapping' = FindOverlappingBbox(bboxes, centroids)
    /\ UNCHANGED <<bboxes, centroids>>
    /\ UNCHANGED styleVars
    /\ UNCHANGED copyVars
    /\ UNCHANGED <<extractVars, run>>
    /\ UNCHANGED convertVars

MatchNext == CallFindOverlappingBbox

SpecMatch == MatchInit /\ [][MatchNext]_vars

----------------------------------------------------------------------------
(* copy_properties, src/copy_properties.py:115-172                         *)
(* The target file is the lists of the entities it holds, in creation      *)
(* order: props (IfcPropertySingleValue), psets (IfcPropertySet, with the  *)
(* indices of their properties), rels (IfcRelDefinesByProperties, with the *)
(* ids of the related elements and the index of the property set) and     *)
(* styled (the style assignments made on representations).  GlobalIds and  *)
(* the owner history are passed along unread and left out.  A call of the  *)
(* toolkit that creates an entity may raise; faults names, for each        *)
(* relation of a source element, the call that does: "none", "property"    *)
(* (the first createIfcPropertySingleValue), "pset" (createIfcPropertySet) *)
(* or "rel" (createIfcRelDefinesByProperties).                             *)

\* "BaseQuantities", "Qto_", "GSA_", "Pset_", "Common"
ignored_psets ==
    << <<"B", "a", "s", "e", "Q", "u", "a", "n", "t", "i", "t", "i", "e", "s">>,
       <<"Q", "t", "o", "_">>,
       <<"G", "S", "A", "_">>,
       <<"P", "s", "e", "t", "_">>,
       <<"C", "o", "m", "m", "o", "n">> >>

\* mutant of IsIgnored: the name compared for equality, not for its prefix
IsIgnoredExact(name) == \E k \in DOMAIN ignored_psets : name = ignored_psets[k]

\* any(source_pset.Name.startswith(ignore) for ignore in ignored_psets)
IsIgnored(name) == \E k \in DOMAIN ignored_psets : StartsWith(name, ignored_psets[k])

\* mutant of CreateIfcPropertySingleValue: Description and NominalValue passed in each other's place
CreateIfcPropertySingleValueSwapped(a1, a2, a3, a4) ==
    [is_a |-> "IfcPropertySingleValue", Name |-> a1, Description |-> a3,
     NominalValue |-> a2, Unit |-> a4]

\* ifc_target_file.createIfcPropertySingleValue(Name, Description, NominalValue, Unit)
CreateIfcPropertySingleValue(a1, a2, a3, a4) ==
    [is_a |-> "IfcPropertySingleValue", Name |-> a1, Description |-> a2,
     NominalValue |-> a3, Unit |-> a4]

\* ifc_target_file.createIfcPropertySet(GlobalId, OwnerHistory, Name, Description, HasProperties)
CreateIfcPropertySet(a3, a4, a5) ==
    [is_a |-> "IfcPropertySet", Name |-> a3, Description |-> a4, HasProperties |-> a5]

\* ifc_target_file.createIfcRelDefinesByProperties(GlobalId, OwnerHistory, None, None, RelatedObjects, RelatingPropertyDefinition)
CreateIfcRelDefinesByProperties(a5, a6) ==
    [is_a |-> "IfcRelDefinesByProperties", RelatedObjects |-> a5,
     RelatingPropertyDefinition |-> a6]

\* the loop over source_pset.HasProperties: the properties cloned, in order
RECURSIVE NewProps(_)
NewProps(HasProperties) ==
    IF HasProperties = <<>> THEN <<>>
    ELSE LET prop == HasProperties[Len(HasProperties)]
             before == NewProps(SubSeq(HasProperties, 1, Len(HasProperties) - 1))
         IN  IF prop.is_a = "IfcPropertySingleValue"
             THEN Append(before,
                         CreateIfcPropertySingleValue(prop.Name, prop.Description,
                                                      prop.NominalValue, prop.Unit))
             ELSE before

(* The try block for one property set (lines 140-172): the file afterwards. *)
(* An exception raised inside is caught and printed, what was created      *)
(* before it stays in the file.                                            *)
CopyPset(file, source_pset, target_id, fault) ==
    LET new_props == NewProps(source_pset.HasProperties)
        n == Len(file.props)
        with_props == [file EXCEPT !.props = file.props \o new_props]
        new_pset == CreateIfcPropertySet(source_pset.Name, source_pset.Description,
                                         [i \in DOMAIN new_props |-> n + i])
        with_pset == [with_props EXCEPT !.psets = Append(file.psets, new_pset)]
        new_rel == CreateIfcRelDefinesByProperties(<<target_id>>, Len(with_pset.psets))
        with_rel == [with_pset EXCEPT !.rels = Append(file.rels, new_rel)]
    IN  IF new_props = <<>> THEN file
        ELSE IF fault = "property" THEN file
        ELSE IF fault = "pset" THEN with_props
        ELSE IF fault = "rel" THEN with_pset
        ELSE with_rel

\* for rel in source_elem.IsDefinedBy: ... from relation i on
RECURSIVE CopyLoop(_, _, _, _, _)
CopyLoop(IsDefinedBy, rel_faults, target_id, file, i) ==
    IF i > Len(IsDefinedBy) THEN [file |-> file, exc |-> ""]
    ELSE LET rel == IsDefinedBy[i]
             source_pset == rel.RelatingPropertyDefinition
             next(f) == CopyLoop(IsDefinedBy, rel_faults, target_id, f, i + 1)
         IN  IF rel.is_a # "IfcRelDefinesByProperties" THEN next(file)
             ELSE IF source_pset.is_a # "IfcPropertySet" THEN next(file)
             \* source_pset.Name.startswith, outside the try block: None has no startswith
             ELSE IF source_pset.Name.t # "str" THEN [file |-> file, exc |-> "AttributeError"]
             ELSE IF IsIgnored(source_pset.Name.s) THEN next(file)
             ELSE next(CopyPset(file, source_pset, target_id, rel_faults[i]))

CopyProperties(source_elem, rel_faults, target_id, file) ==
    CopyLoop(source_elem.IsDefinedBy, rel_faults, target_id, file, 1)

----------------------------------------------------------------------------
(* apply_style_to_element, src/copy_properties.py:203-235 *)

\* element.IsDefinedBy: the relations of the file that name the element, in file order
RelsOf(file, element_id) ==
    LET RECURSIVE Pick(_)
        Pick(n) ==
            IF n = 0 THEN <<>>
            ELSE IF \E o \in DOMAIN file.rels[n].RelatedObjects :
                        file.rels[n].RelatedObjects[o] = element_id
                 THEN Append(Pick(n - 1), file.rels[n])
                 ELSE Pick(n - 1)
    IN  Pick(Len(file.rels))

\* mutant of AddProps: a name already in attributes keeps its first value
RECURSIVE AddPropsKeepFirst(_, _, _)
AddPropsKeepFirst(attrs, file, HasProperties) ==
    IF HasProperties = <<>> THEN attrs
    ELSE LET prop == file.props[Head(HasProperties)]
         IN  AddPropsKeepFirst(IF /\ prop.is_a = "IfcPropertySingleValue"
                                  /\ prop.NominalValue.t # "none"
                                  /\ ~HasKey(attrs, prop.Name)
                               THEN DictSet(attrs, prop.Name, prop.NominalValue)
                               ELSE attrs,
                               file, Tail(HasProperties))

\* for prop in pset.HasProperties: attributes[prop.Name] = prop.NominalValue.wrappedValue
RECURSIVE AddProps(_, _, _)
AddProps(attrs, file, HasProperties) ==
    IF HasProperties = <<>> THEN attrs
    ELSE LET prop == file.props[Head(HasProperties)]
         IN  AddProps(IF prop.is_a = "IfcPropertySingleValue" /\ prop.NominalValue.t # "none"
                      THEN DictSet(attrs, prop.Name, prop.NominalValue)
                      ELSE attrs,
                      file, Tail(HasProperties))

\* for rel in element.IsDefinedBy: ...
RECURSIVE AddRels(_, _, _)
AddRels(attrs, file, rels) ==
    IF rels = <<>> THEN attrs
    ELSE LET rel == Head(rels)
             pset == file.psets[rel.RelatingPropertyDefinition]
         IN  AddRels(IF rel.is_a = "IfcRelDefinesByProperties" /\ pset.is_a = "IfcPropertySet"
                     THEN AddProps(attrs, file, pset.HasProperties)
                     ELSE attrs,
                     file, Tail(rels))

ElementAttributes(file, element_id) == AddRels(<<>>, file, RelsOf(file, element_id))

(* Result: the file, applied (the value returned) and exc, the exception   *)
(* that leaves the call: get_matching_style is called outside the try      *)
(* block, assign_representation_styles inside it.  The locals attributes   *)
(* and matching_style are kept in the result.                              *)
\* lines 218-235: what follows the call of get_matching_style, r being its outcome
ApplyResolved(element, file, attrs, r) ==
    LET out(f, applied, exc) ==
            [file |-> f, applied |-> applied, exc |-> exc,
             attributes |-> attrs, matching_style |-> r]
    IN  IF r.kind = "raise" THEN out(file, FALSE, r.val)
        \* if matching_style and ...: neither None nor the empty name
        ELSE IF r = RetNone \/ r.val = "" THEN out(file, FALSE, "")
        ELSE IF ~element.Representation THEN out(file, FALSE, "")
        ELSE IF element.attach_fails THEN out(file, FALSE, "")
        ELSE out([file EXCEPT !.styled = Append(@, [element |-> element.id, style |-> r.val])],
                 TRUE, "")

\* lines 217-218: matching_style = get_matching_style(attributes, styles)
ApplyAttributes(element, file, styles, attrs) ==
    ApplyResolved(element, file, attrs, GetMatchingStyle(attrs, styles).res)

ApplyStyleToElement(element, file, styles) ==
    ApplyAttributes(element, file, styles, ElementAttributes(file, element.id))

----------------------------------------------------------------------------
(* copy_matching_properties, src/copy_properties.py:174-201 *)

\* file.by_guid(id), for the ids of the file's elements
IndexOf(elems, id) == CHOOSE i \in DOMAIN elems : elems[i].id = id

(* The two loops from source i, candidate k on.  st is [file, exc,         *)
(* styled_count, pairs, reported, resolved]: pairs lists the (source,      *)
(* target) pairs copy_properties was called for, reported the sources      *)
(* printed as having no matching element, resolved the calls of            *)
(* apply_style_to_element (the element, the number of relations in the     *)
(* file at the call, the attributes it built, the outcome of               *)
(* get_matching_style and the value returned), exc the exception that left *)
(* the function.                                                           *)
RECURSIVE ReconcileLoop(_, _, _, _)

\* lines 198-199: what follows apply_style_to_element, a being its outcome
Resolution(element_id, a) ==
    [element |-> element_id, rels |-> Len(a.file.rels), attributes |-> a.attributes,
     matching_style |-> a.matching_style, applied |-> a.applied]

AfterStyle(ctx, st, i, k, a) ==
    IF a.exc # ""
    THEN [st EXCEPT !.file = a.file, !.exc = a.exc,
                    !.resolved = Append(@, Resolution(ctx.overlapping[i].matches[k].id, a))]
    ELSE ReconcileLoop(ctx,
                       [st EXCEPT !.file = a.file,
                                  !.styled_count = IF a.applied THEN @ + 1 ELSE @,
                                  !.resolved = Append(@, Resolution(ctx.overlapping[i].matches[k].id, a))],
                       i, k + 1)

\* lines 196-198: what follows copy_properties, c being its outcome
AfterCopy(ctx, st, i, k, target_elem, c) ==
    IF c.exc # "" THEN [st EXCEPT !.file = c.file, !.exc = c.exc]
    ELSE AfterStyle(ctx, st, i, k, ApplyStyleToElement(target_elem, c.file, ctx.styles))

\* lines 191-196: the pair (source i, its candidate k)
ReconcilePair(ctx, st, i, k, source_elem, source_faults, target_elem) ==
    AfterCopy(ctx, [st EXCEPT !.pairs = Append(@, <<source_elem.id, target_elem.id>>)],
              i, k, target_elem,
              CopyProperties(source_elem, source_faults, target_elem.id, st.file))

ReconcileLoop(ctx, st, i, k) ==
    IF i > Len(ctx.overlapping) THEN st
    ELSE LET source_id == ctx.overlapping[i].id
             matches == ctx.overlapping[i].matches
         IN  IF matches = <<>>
             THEN ReconcileLoop(ctx, [st EXCEPT !.reported = Append(@, source_id)], i + 1, 1)
             ELSE IF k > Len(matches) THEN ReconcileLoop(ctx, st, i + 1, 1)
             ELSE ReconcilePair(ctx, st, i, k,
                                ctx.source_elems[IndexOf(ctx.source_elems, source_id)],
                                ctx.faults[IndexOf(ctx.source_elems, source_id)],
                                ctx.target_elems[IndexOf(ctx.target_elems, matches[k].id)])

CopyMatchingProperties(ctx, file) ==
    ReconcileLoop(ctx,
                  [file |-> file, exc |-> "", styled_count |-> 0,
                   pairs |-> <<>>, reported |-> <<>>, resolved |-> <<>>],
                  1, 1)

----------------------------------------------------------------------------
(* Inputs of the Property Copier: one source element, one target element *)

UnitV == [t |-> "unit", s |-> <<"m">>, n |-> 0]

Prop(is_a, Name, Description, NominalValue, Unit) ==
    [is_a |-> is_a, Name |-> Name, Description |-> Description,
     NominalValue |-> NominalValue, Unit |-> Unit]

\* type = "1"
p_type_1 == Prop("IfcPropertySingleValue", k_type, NoneV, StrV(<<"1">>), NoneV)
\* type = "abc", with a description and a unit
p_type_abc == Prop("IfcPropertySingleValue", k_type, StrV(<<"d">>), StrV(<<"a", "b", "c">>), UnitV)
\* kind, without a value
p_kind_unset == Prop("IfcPropertySingleValue", k_kind, NoneV, NoneV, NoneV)
\* an enumerated property, which is no IfcPropertySingleValue
p_kind_enum == Prop("IfcPropertyEnumeratedValue", k_kind, NoneV, NoneV, NoneV)

PropLists ==
    { <<p_kind_enum>>, <<p_type_1>>, <<p_type_abc, p_kind_enum, p_kind_unset, p_type_1>> }

n_FKB == <<"F", "K", "B">>

\* each reserved prefix, alone and followed by a letter
ReservedNames == {ignored_psets[k] \o suffix : k \in DOMAIN ignored_psets, suffix \in {<<>>, <<"A">>}}

\* "Qto", "pset_A", "xGSA_": close to a reserved prefix, and not starting with one
LookalikeNames ==
    { <<"Q", "t", "o">>, <<"p", "s", "e", "t", "_", "A">>, <<"x", "G", "S", "A", "_">> }

Definition(is_a, Name, HasProperties) ==
    [is_a |-> is_a, Name |-> Name, Description |-> NoneV, HasProperties |-> HasProperties]

Defines(definition) ==
    [is_a |-> "IfcRelDefinesByProperties", RelatingPropertyDefinition |-> definition]

\* an IfcRelDefinesByType relation: its type object is not read
r_by_type ==
    [is_a |-> "IfcRelDefinesByType",
     RelatingPropertyDefinition |-> Definition("IfcTypeObject", NoneV, <<>>)]

SourceRels ==
    {Defines(Definition("IfcPropertySet", StrV(name), <<p_type_1>>)) :
        name \in ReservedNames \cup LookalikeNames}
    \cup {Defines(Definition("IfcPropertySet", StrV(n_FKB), props)) : props \in PropLists}
    \cup {Defines(Definition("IfcPropertySet", NoneV, <<p_type_1>>)),
          Defines(Definition("IfcElementQuantity", StrV(n_FKB), <<>>)),
          r_by_type}

Faults == {"none", "property", "pset", "rel"}

HasSingleValue(definition) ==
    \E i \in DOMAIN definition.HasProperties :
        definition.HasProperties[i].is_a = "IfcPropertySingleValue"

\* the relations whose handling reaches a creating call of the toolkit
Clonable(rel) ==
    /\ rel.is_a = "IfcRelDefinesByProperties"
    /\ rel.RelatingPropertyDefinition.is_a = "IfcPropertySet"
    /\ rel.RelatingPropertyDefinition.Name.t = "str"
    /\ ~IsIgnored(rel.RelatingPropertyDefinition.Name.s)
    /\ HasSingleValue(rel.RelatingPropertyDefinition)

\* a fault is named only where a creating call is made
FaultsFor(rels) ==
    {f \in [DOMAIN rels -> Faults] : \A i \in DOMAIN rels : f[i] # "none" => Clonable(rels[i])}

Element(id, rels) == [id |-> id, IsDefinedBy |-> rels]

Target(id, Representation, attach_fails) ==
    [id |-> id, Representation |-> Representation, attach_fails |-> attach_fails]

\* a target file in which element t1 already carries a property set FKB with type = 2
OwnPsetFile ==
    [props |-> <<CreateIfcPropertySingleValue(k_type, NoneV, IntV(2), NoneV)>>,
     psets |-> <<CreateIfcPropertySet(StrV(n_FKB), NoneV, <<1>>)>>,
     rels |-> <<CreateIfcRelDefinesByProperties(<<"t1">>, 1)>>,
     styled |-> <<>>]

CopyInit ==
    /\ \E rels \in SeqsUpTo(SourceRels, MaxPsets) : \E f \in FaultsFor(rels) :
        /\ source_elems = <<Element("s1", rels)>>
        /\ faults = <<f>>
    /\ target_elems = <<Target("t1", TRUE, FALSE)>>
    /\ target_file \in {EmptyFile, OwnPsetFile}
    /\ file_before = target_file
    /\ copy_result = NoResult
    /\ pc = "ready"
    /\ StyleIdle
    /\ MatchIdle
    /\ ExtractIdle
    /\ MainIdle
    /\ ConvertIdle

CallCopyProperties ==
    /\ pc = "ready"
    /\ pc' = "returned"
    /\ LET c == CopyProperties(source_elems[1], faults[1], target_elems[1].id, target_file)
       IN  /\ target_file' = c.file
           /\ copy_result' = [NoResult EXCEPT !.exc = c.exc,
                                              !.pairs = <<<<source_elems[1].id,
                                                            target_elems[1].id>>>>]
    /\ file_before' = target_file
    /\ UNCHANGED <<source_elems, faults, target_elems>>
    /\ UNCHANGED styleVars
    /\ UNCHANGED matchVars
    /\ UNCHANGED <<extractVars, run>>
    /\ UNCHANGED convertVars

CopyNext == CallCopyProperties

SpecCopy == CopyInit /\ [][CopyNext]_vars

----------------------------------------------------------------------------
(* The reconcile steps of main, lines 291-298: find_overlapping_bbox on    *)
(* the records extracted from the two files, then copy_matching_properties *)
(* on the mapping it returned.  The inputs are the elements of the source  *)
(* file and of the target file with their extracted geometry, and the      *)
(* styles.  Every id of the mapping names an element of its file, and the  *)
(* target file holds an IfcOwnerHistory.                                   *)

\* type = "inf"
p_type_inf == Prop("IfcPropertySingleValue", k_type, NoneV, StrV(<<"i", "n", "f">>), NoneV)

r_FKB_1 == Defines(Definition("IfcPropertySet", StrV(n_FKB), <<p_type_1>>))
r_FKB_abc == Defines(Definition("IfcPropertySet", StrV(n_FKB), <<p_type_abc>>))
r_FKB_inf == Defines(Definition("IfcPropertySet", StrV(n_FKB), <<p_type_inf>>))
r_nameless == Defines(Definition("IfcPropertySet", NoneV, <<p_type_1>>))
r_reserved == Defines(Definition("IfcPropertySet", StrV(ignored_psets[4]), <<p_type_1>>))
\* type = "1" followed by a type without a value
p_type_unset == Prop("IfcPropertySingleValue", k_type, NoneV, NoneV, NoneV)
r_FKB_1_unset == Defines(Definition("IfcPropertySet", StrV(n_FKB), <<p_type_1, p_type_unset>>))

\* the target file in which element t1 has a property set with a reserved name, type = 2
OwnReservedFile ==
    [props |-> <<CreateIfcPropertySingleValue(k_type, NoneV, IntV(2), NoneV)>>,
     psets |-> <<CreateIfcPropertySet(StrV(ignored_psets[4]), NoneV, <<1>>)>>,
     rels |-> <<CreateIfcRelDefinesByProperties(<<"t1">>, 1)>>,
     styled |-> <<>>]

\* the property sets of a source element, with the toolkit fault met at each
ReconcileSources ==
    { [rels |-> <<r_FKB_1>>, faults |-> <<"none">>],
      [rels |-> <<r_FKB_abc>>, faults |-> <<"none">>],
      [rels |-> <<r_FKB_inf>>, faults |-> <<"none">>],
      [rels |-> <<r_reserved>>, faults |-> <<"none">>],
      [rels |-> <<r_FKB_1_unset>>, faults |-> <<"none">>],
      [rels |-> <<r_nameless, r_FKB_1>>, faults |-> <<"none", "none">>],
      [rels |-> <<r_FKB_abc, r_FKB_1>>, faults |-> <<"property", "none">>],
      [rels |-> <<r_FKB_1, r_FKB_abc>>, faults |-> <<"rel", "none">>] }

ReconcileSourceIds == <<"s1", "s2">>
ReconcileTargetIds == <<"t1", "t2">>

\* a target element: with a representation or without, its style attachment failing or not
ReconcileTargets(id) ==
    {Target(id, TRUE, FALSE), Target(id, FALSE, FALSE), Target(id, TRUE, TRUE)}

\* a footprint box and a smaller one inside it
ReconcileBounds == { <<0, 0, 0, 4, 3, 0>>, <<1, 0, 0, 3, 2, 0>> }

\* a centroid inside both boxes, one inside the larger box only, one on a corner of it
ReconcileCentroids == { <<2, 1, 2>>, <<1, 1, 2>>, <<4, 3, 2>> }

\* {"A": type in [1]} and {"A": type in ["abc"], "B": type in [1, 2]}
ReconcileStyles ==
    { <<[name |-> StyleNames[1], attribute |-> k_type, values |-> <<IntV(1)>>]>>,
      <<[name |-> StyleNames[1], attribute |-> k_type, values |-> <<StrV(<<"a", "b", "c">>)>>],
        [name |-> StyleNames[2], attribute |-> k_type, values |-> <<IntV(1), IntV(2)>>]>> }

ReconcileInit ==
    /\ \E ns \in DOMAIN ReconcileSourceIds : \E src \in [1..ns -> ReconcileSources] :
        /\ source_elems = [i \in 1..ns |-> Element(ReconcileSourceIds[i], src[i].rels)]
        /\ faults = [i \in 1..ns |-> src[i].faults]
        /\ \E b \in [1..ns -> ReconcileBounds] :
                bboxes = [i \in 1..ns |-> [id |-> ReconcileSourceIds[i], bounds |-> b[i]]]
    /\ \E t1 \in ReconcileTargets(ReconcileTargetIds[1]) :
       \E t2 \in ReconcileTargets(ReconcileTargetIds[2]) \ {Target(ReconcileTargetIds[2], TRUE, TRUE)} :
            target_elems = <<t1, t2>>
    /\ \E c \in [DOMAIN ReconcileTargetIds -> ReconcileCentroids] :
            centroids = [j \in DOMAIN ReconcileTargetIds |->
                            [id |-> ReconcileTargetIds[j], centroid |-> c[j]]]
    /\ overlapping = <<>>
    /\ styles_info \in ReconcileStyles
    /\ target_file \in {EmptyFile, OwnPsetFile, OwnReservedFile}
    /\ file_before = target_file
    /\ copy_result = NoResult
    /\ attributes = <<>>
    /\ matching_style = NotCalled
    /\ rule_log = <<>>
    /\ ExtractIdle
    /\ MainIdle
    /\ ConvertIdle
    /\ pc = "ready"

\* overlapping = find_overlapping_bbox(bboxes, centroids)
MatchGeometries ==
    /\ pc = "ready"
    /\ pc' = "matched"
    /\ overlapping' = FindOverlappingBbox(bboxes, centroids)
    /\ UNCHANGED <<bboxes, centroids, styleVars, copyVars, extractVars, run>>
    /\ UNCHANGED convertVars

\* copy_matching_properties(file_footprint, file_target, overlapping, styles)
CallCopyMatchingProperties ==
    /\ pc = "matched"
    /\ pc' = "returned"
    /\ LET st == CopyMatchingProperties(
                    [overlapping |-> overlapping, source_elems |-> source_elems,
                     faults |-> faults, target_elems |-> target_elems,
                     styles |-> styles_info],
                    target_file)
       IN  /\ target_file' = st.file
           /\ copy_result' = [exc |-> st.exc, styled_count |-> st.styled_count,
                              pairs |-> st.pairs, reported |-> st.reported,
                              resolved |-> st.resolved]
    /\ file_before' = target_file
    /\ UNCHANGED <<source_elems, faults, target_elems, overlapping, styles_info>>
    /\ UNCHANGED <<attributes, matching_style, rule_log, bboxes, centroids>>
    /\ UNCHANGED <<extractVars, run>>
    /\ UNCHANGED convertVars

ReconcileNext == MatchGeometries \/ CallCopyMatchingProperties

SpecReconcile == ReconcileInit /\ [][ReconcileNext]_vars

----------------------------------------------------------------------------
(* Properties of the Overlap Matcher, under SpecMatch *)

HitsOf(i, j) ==
    {k \in DOMAIN overlapping[i].matches : overlapping[i].matches[k].id = centroids[j].id}

(* C1: the mapping holds target j in the candidate list of source i if and *)
(* only if the centroid lies strictly between the box's x bounds and       *)
(* strictly between its y bounds (z is not consulted), and holds each      *)
(* (source, target) pair at most once.                                     *)
C1_StrictContainment ==
    pc = "returned" =>
        /\ DOMAIN overlapping = DOMAIN bboxes
        /\ \A i \in DOMAIN bboxes :
            /\ overlapping[i].id = bboxes[i].id
            /\ \A k \in DOMAIN overlapping[i].matches :
                    \E j \in DOMAIN centroids : overlapping[i].matches[k].id = centroids[j].id
            /\ \A j \in DOMAIN centroids :
                LET B == bboxes[i].bounds
                    C == centroids[j].centroid
                IN  /\ HitsOf(i, j) # {} <=>
                            /\ C[1] \in (B[1] + 1)..(B[4] - 1)
                            /\ C[2] \in (B[2] + 1)..(B[5] - 1)
                    /\ Cardinality(HitsOf(i, j)) <= 1

\* C1, its case: one centroid on a corner of a box and no candidate, another inside and a candidate
C1_Witness ==
    /\ pc = "returned"
    /\ \E i \in DOMAIN bboxes : \E j1, j2 \in DOMAIN centroids :
        /\ centroids[j1].centroid[1] = bboxes[i].bounds[4]
        /\ centroids[j1].centroid[2] = bboxes[i].bounds[5]
        /\ HitsOf(i, j1) = {}
        /\ HitsOf(i, j2) # {}
        /\ centroids[j2].centroid[3] > bboxes[i].bounds[6]

(* C2: in the returned mapping every candidate list is non-decreasing in   *)
(* distance from one candidate to the next.                                *)
C2_SortedByDistance ==
    pc = "returned" =>
        \A i \in DOMAIN overlapping :
            \A k \in 1..(Len(overlapping[i].matches) - 1) :
                overlapping[i].matches[k].dist <= overlapping[i].matches[k + 1].dist

\* C2, its case: two candidates that the targets' iteration order lists farthest first
C2_Witness ==
    /\ pc = "returned"
    /\ \E i \in DOMAIN overlapping :
        /\ Len(overlapping[i].matches) >= 2
        /\ overlapping[i].matches[1].dist < overlapping[i].matches[2].dist
        /\ \E j1, j2 \in DOMAIN centroids :
            /\ j1 < j2
            /\ centroids[j2].id = overlapping[i].matches[1].id
            /\ centroids[j1].id = overlapping[i].matches[2].id

----------------------------------------------------------------------------
(* Properties of the Style Resolver, under SpecStyle *)

\* the entries of attrs whose trimmed key is the rule's trimmed trigger attribute
TriggerEntries(rule, attrs) ==
    {i \in DOMAIN attrs : Strip(attrs[i].key) = Strip(rule.attribute)}

TriggerPresent(rule, attrs) ==
    Strip(rule.attribute) # <<>> /\ TriggerEntries(rule, attrs) # {}

\* the value compared: the one of the entry inserted last
TriggerValue(rule, attrs) ==
    attrs[CHOOSE i \in TriggerEntries(rule, attrs) :
            \A j \in TriggerEntries(rule, attrs) : j <= i].value

StringForms(values) == {PyStr(values[k]) : k \in DOMAIN values}

(* A rule matches an attribute set as sections 4.4 of the specification    *)
(* words it: the trigger attribute is present and the acceptable values    *)
(* are empty, or hold the integer of the value, or, the cast having        *)
(* failed, hold the value's string form.                                   *)
RuleMatches(rule, attrs) ==
    /\ TriggerPresent(rule, attrs)
    /\ LET v == TriggerValue(rule, attrs)
           c == IntOfFloat(v)
       IN  \/ rule.values = <<>>
           \/ c.exc = "" /\ CastIn(c, rule.values)
           \/ c.exc # "" /\ PyStr(v) \in StringForms(rule.values)

MatchingRules == {i \in DOMAIN styles_info : RuleMatches(styles_info[i], attributes)}

(* C3: the call returns the name of the earliest matching rule in the      *)
(* order of the rule mapping, and None exactly when no rule matches.       *)
C3_FirstMatch ==
    pc = "returned" =>
        IF MatchingRules = {} THEN matching_style = RetNone
        ELSE matching_style =
                Ret(styles_info[CHOOSE i \in MatchingRules :
                                    \A j \in MatchingRules : i <= j].name)

(* C4: for every rule the loop visited: a rule without trigger attribute,  *)
(* or whose trigger attribute is absent, does not match; when the cast of  *)
(* the value succeeds, the rule matches if the integer is among its        *)
(* acceptable values and does not match if these are non-empty and do not  *)
(* hold the integer, whatever the string form of the value; a rule matches *)
(* by string comparison only when the cast failed.                         *)
C4_NumericFirst ==
    pc = "returned" =>
        \A i \in DOMAIN rule_log :
            LET rule == styles_info[i]
                present == TriggerPresent(rule, attributes)
                v == TriggerValue(rule, attributes)
                c == IntOfFloat(v)
                matched == rule_log[i].step = "return"
            IN  /\ ~present => rule_log[i].step = "continue"
                /\ present /\ c.exc = "" /\ CastIn(c, rule.values) => matched
                /\ present /\ c.exc = "" /\ rule.values # <<>> /\ ~CastIn(c, rule.values)
                        => rule_log[i].step = "continue"
                /\ matched /\ rule.values # <<>> /\ ~(c.exc = "" /\ CastIn(c, rule.values))
                        => c.exc # "" /\ PyStr(v) \in StringForms(rule.values)

\* C4, its case: the value "1" casts to 1, the rule accepts the string "1" only, and does not match
C4_Witness ==
    /\ pc = "returned"
    /\ \E i \in DOMAIN rule_log :
        /\ TriggerPresent(styles_info[i], attributes)
        /\ IntOfFloat(TriggerValue(styles_info[i], attributes)).exc = ""
        /\ PyStr(TriggerValue(styles_info[i], attributes)) \in StringForms(styles_info[i].values)
        /\ rule_log[i].step = "continue"
    /\ \E i \in DOMAIN rule_log :
        /\ TriggerPresent(styles_info[i], attributes)
        /\ IntOfFloat(TriggerValue(styles_info[i], attributes)).exc = "ValueError"
        /\ rule_log[i].step = "return"
        /\ styles_info[i].values # <<>>

(* C5: every visited rule with an empty acceptable-value set matches when  *)
(* its trigger attribute is present, whatever the value, and does not      *)
(* match when the trigger attribute is absent.                             *)
C5_EmptyValuesMatch ==
    pc = "returned" =>
        \A i \in DOMAIN rule_log :
            styles_info[i].values = <<>> =>
                IF TriggerPresent(styles_info[i], attributes)
                THEN rule_log[i].step = "return"
                ELSE rule_log[i].step = "continue"

\* the attribute set with every key trimmed, the entry inserted last kept for a repeated key
TrimmedLastWins(attrs) ==
    LET last == {i \in DOMAIN attrs :
                    \A j \in DOMAIN attrs : Strip(attrs[j].key) = Strip(attrs[i].key) => j <= i}
        RECURSIVE Pick(_)
        Pick(n) ==
            IF n = 0 THEN <<>>
            ELSE IF n \in last
                 THEN Append(Pick(n - 1), [key |-> Strip(attrs[n].key), value |-> attrs[n].value])
                 ELSE Pick(n - 1)
    IN  Pick(Len(attrs))

\* two keys of the attribute set differ and are equal once trimmed
KeysCollide(attrs) ==
    \E i, j \in DOMAIN attrs :
        attrs[i].key # attrs[j].key /\ Strip(attrs[i].key) = Strip(attrs[j].key)

(* C6: the outcome of the call is the outcome for the attribute set with   *)
(* every key trimmed, in which a key repeated after trimming carries the   *)
(* value inserted last; and when two keys are equal after trimming the     *)
(* call does not fail: it returns a style name or None.                    *)
C6_KeysTrimmed ==
    pc = "returned" =>
        /\ matching_style = GetMatchingStyle(TrimmedLastWins(attributes), styles_info).res
        /\ KeysCollide(attributes) => matching_style.kind # "raise"

----------------------------------------------------------------------------
(* Properties of the Property Copier, under SpecCopy *)

CreatedSince(after, before) == SubSeq(after, Len(before) + 1, Len(after))
CreatedProps == CreatedSince(target_file.props, file_before.props)
CreatedPsets == CreatedSince(target_file.psets, file_before.psets)
CreatedRels == CreatedSince(target_file.rels, file_before.rels)

ReservedPrefixes ==
    { <<"B", "a", "s", "e", "Q", "u", "a", "n", "t", "i", "t", "i", "e", "s">>,
      <<"Q", "t", "o", "_">>, <<"G", "S", "A", "_">>, <<"P", "s", "e", "t", "_">>,
      <<"C", "o", "m", "m", "o", "n">> }

HasReservedPrefix(name) ==
    \E q \in ReservedPrefixes :
        Len(q) <= Len(name) /\ \A i \in 1..Len(q) : name[i] = q[i]

SourceRelsOf == source_elems[1].IsDefinedBy
SourceDef(i) == SourceRelsOf[i].RelatingPropertyDefinition

\* relation i attaches a property set to the source element
IsSourcePset(i) ==
    SourceRelsOf[i].is_a = "IfcRelDefinesByProperties" /\ SourceDef(i).is_a = "IfcPropertySet"

Named(i) == SourceDef(i).Name.t = "str"

\* the property sets the claims speak of: named, and not reserved
NonReserved(i) == IsSourcePset(i) /\ Named(i) /\ ~HasReservedPrefix(SourceDef(i).Name.s)

\* the call got as far as relation i: no property set before it is without a name
Reached(i) == \A j \in 1..(i - 1) : IsSourcePset(j) => Named(j)

RECURSIVE Ascending(_)
Ascending(S) ==
    IF S = {} THEN <<>>
    ELSE LET m == CHOOSE x \in S : \A y \in S : y <= x
         IN  Append(Ascending(S \ {m}), m)

PositionIn(seq, x) == CHOOSE k \in DOMAIN seq : seq[k] = x

(* C7: no property set created by the call has a name starting with a      *)
(* reserved prefix, and when every property set of the source element has  *)
(* such a name the call creates no property set, no property and no        *)
(* defines relation in the target file.                                    *)
C7_ReservedNeverCopied ==
    pc = "returned" =>
        /\ \A k \in DOMAIN CreatedPsets : ~HasReservedPrefix(CreatedPsets[k].Name.s)
        /\ (\A i \in DOMAIN SourceRelsOf :
                IsSourcePset(i) => Named(i) /\ HasReservedPrefix(SourceDef(i).Name.s))
            => /\ CreatedPsets = <<>>
               /\ CreatedProps = <<>>
               /\ CreatedRels = <<>>
               /\ copy_result.exc = ""

\* C7, its case: two property sets with different reserved names, each with a property, and nothing created
C7_Witness ==
    /\ pc = "returned"
    /\ Len(SourceRelsOf) = 2
    /\ \A i \in DOMAIN SourceRelsOf :
        /\ IsSourcePset(i) /\ Named(i) /\ HasReservedPrefix(SourceDef(i).Name.s)
        /\ HasSingleValue(SourceDef(i))
    /\ Len(SourceDef(1).Name.s) > Len(SourceDef(2).Name.s)
    /\ target_file = file_before

\* the property sets the call copies, and those it also attaches
CopiedSources ==
    {i \in DOMAIN SourceRelsOf :
        /\ NonReserved(i) /\ Reached(i) /\ HasSingleValue(SourceDef(i))
        /\ faults[1][i] \notin {"property", "pset"}}

AttachedSources == {i \in CopiedSources : faults[1][i] = "none"}

ExactlyOneEach(copied, attached) ==
    /\ Len(CreatedPsets) = Cardinality(copied)
    /\ \A k \in DOMAIN CreatedPsets :
            CreatedPsets[k].Name = SourceDef(Ascending(copied)[k]).Name
    /\ Len(CreatedRels) = Cardinality(attached)
    /\ \A k \in DOMAIN CreatedRels :
        /\ CreatedRels[k].RelatedObjects = <<target_elems[1].id>>
        /\ CreatedRels[k].RelatingPropertyDefinition =
                Len(file_before.psets) + PositionIn(Ascending(copied), Ascending(attached)[k])

(* C8: the call creates exactly one new property set of the same name for  *)
(* every named, non-reserved property set of the source element, also for  *)
(* one that holds no single-value property, and exactly one new defines    *)
(* relation attaching that new set to the target element.                  *)
C8_CopiedOncePerPset ==
    pc = "returned" =>
        ExactlyOneEach({i \in DOMAIN SourceRelsOf : NonReserved(i)},
                       {i \in DOMAIN SourceRelsOf : NonReserved(i)})

\* the (name, value, unit) tuples of the single-value properties of a source property set
RECURSIVE SourceTuples(_)
SourceTuples(HasProperties) ==
    IF HasProperties = <<>> THEN <<>>
    ELSE LET q == Head(HasProperties)
         IN  (IF q.is_a = "IfcPropertySingleValue"
              THEN <<<<q.Name, q.NominalValue, q.Unit>>>>
              ELSE <<>>) \o SourceTuples(Tail(HasProperties))

\* the tuples of a property set of the target file, read back through its property indices
TargetTuples(pset) ==
    [k \in DOMAIN pset.HasProperties |->
        LET q == target_file.props[pset.HasProperties[k]]
        IN  <<q.Name, q.NominalValue, q.Unit>>]

(* C9: every property set the call created carries the name of the source  *)
(* property set it was copied from and, read back from the target file,    *)
(* the same sequence of (name, value, unit) tuples as the single-value     *)
(* properties of that source property set.                                 *)
C9_RoundTrip ==
    pc = "returned" =>
        /\ Len(CreatedPsets) = Cardinality(CopiedSources)
        /\ \A k \in DOMAIN CreatedPsets :
            LET src == SourceDef(Ascending(CopiedSources)[k])
            IN  /\ CreatedPsets[k].Name = src.Name
                /\ CreatedPsets[k].is_a = "IfcPropertySet"
                /\ TargetTuples(CreatedPsets[k]) = SourceTuples(src.HasProperties)
                /\ \A x \in DOMAIN CreatedPsets[k].HasProperties :
                        target_file.props[CreatedPsets[k].HasProperties[x]].is_a
                            = "IfcPropertySingleValue"

\* C9, its case: a copied set of three single-value properties, one with a unit, one without a value
C9_Witness ==
    /\ pc = "returned"
    /\ Len(file_before.props) = 1
    /\ \E k \in DOMAIN CreatedPsets :
        /\ Len(CreatedPsets[k].HasProperties) = 3
        /\ TargetTuples(CreatedPsets[k]) =
                << <<k_type, StrV(<<"a", "b", "c">>), UnitV>>,
                   <<k_kind, NoneV, NoneV>>,
                   <<k_type, StrV(<<"1">>), NoneV>> >>
        /\ \E r \in DOMAIN CreatedRels :
                CreatedRels[r].RelatingPropertyDefinition = Len(file_before.psets) + k

----------------------------------------------------------------------------
(* Properties of copy_matching_properties, under SpecReconcile *)

(* C10: the failure of handling a property set that has no name never      *)
(* leaves copy_matching_properties, that is, the call never ends with the  *)
(* AttributeError of reading startswith from a name that is None.          *)
C10_FailuresContained ==
    pc = "returned" => copy_result.exc # "AttributeError"

(* C11: apply_style_to_element never raises, so that a run of              *)
(* copy_matching_properties never ends with the OverflowError that the     *)
(* style resolution of a target element's attributes raised.               *)
C11_StylingNeverRaises ==
    pc = "returned" => copy_result.exc # "OverflowError"

----------------------------------------------------------------------------
(* main, src/copy_properties.py:259-307                                    *)
(* pc is the statement the run is at; run.done lists the steps completed,  *)
(* run.error the exception that ended the run, run.written the number of   *)
(* calls of file_target.write.  run.args says what the paths given on the  *)
(* command line lead to: an exchange file that opens or not, a style file  *)
(* that is missing, not JSON, or holds the document run.args.document.     *)

Steps ==
    << "open_footprint", "open_target", "load_style_settings", "create_styles2",
       "get_geometry_and_location", "get_shape_bbox_centroid", "find_overlapping_bbox",
       "copy_matching_properties", "write" >>

\* the statement that follows a step in main
NextStep(step) == Steps[(CHOOSE i \in DOMAIN Steps : Steps[i] = step) + 1]

\* main catches nothing: an exception raised by a step ends the run
StepOutcome(step, exc) == IF exc = "" THEN NextStep(step) ELSE "halted"

\* run after a step that ended with exc ("" when it returned)
RunAfter(step, exc) ==
    IF exc = "" THEN [run EXCEPT !.done = Append(@, step)] ELSE [run EXCEPT !.error = exc]

\* ifcopenshell.open(path)
OpenOutcome(file) == IF file = "opens" THEN "" ELSE "IOError"

\* load_style_settings, afry_bimshape_lib.py:491-499
LoadStyleSettingsOutcome(style_file) ==
    CASE style_file = "missing" -> "FileNotFoundError"
      [] style_file = "invalid" -> "ValueError"
      [] style_file = "document" -> ""

(* getattr(afry_bimshape_lib, name) finds the functions the module defines  *)
(* at top level, the names its import statements bind, the names Python    *)
(* sets on a module it loads from a file and the attributes every module   *)
(* object has (CPython 3.11, which tomllib requires); any other name       *)
(* raises AttributeError.                                                  *)
LibraryFunctions ==
    { "create_new_ifc_file", "create_property_set", "create_building_element_proxy",
      "assign_property_set", "create_volume_from_point", "create_volume_from_polygon",
      "get_matching_style", "create_volume_from_linestring", "load_style_settings",
      "create_styles" }

\* import os ... from typing import Dict, List, Union
LibraryImports == {"os", "json", "tomllib", "ifcopenshell", "time", "Dict", "List", "Union"}

ModuleObjectNames ==
    { "__builtins__", "__cached__", "__doc__", "__file__", "__loader__", "__name__",
      "__package__", "__spec__",
      "__annotations__", "__class__", "__delattr__", "__dict__", "__dir__", "__eq__",
      "__format__", "__ge__", "__getattribute__", "__getstate__", "__gt__", "__hash__",
      "__init__", "__init_subclass__", "__le__", "__lt__", "__ne__", "__new__",
      "__reduce__", "__reduce_ex__", "__repr__", "__setattr__", "__sizeof__", "__str__",
      "__subclasshook__" }

AttributeOutcome(name) ==
    IF name \in LibraryFunctions \cup LibraryImports \cup ModuleObjectNames
    THEN "" ELSE "AttributeError"

MainArgs ==
    { [footprint |-> f, target |-> t, style_file |-> s, document |-> d] :
        f \in {"opens", "unreadable"}, t \in {"opens", "unreadable"},
        s \in {"missing", "invalid"}, d \in {<<>>} }
    \cup
    { [footprint |-> f, target |-> t, style_file |-> "document", document |-> d] :
        f \in {"opens", "unreadable"}, t \in {"opens", "unreadable"}, d \in StyleDicts }

MainInit ==
    /\ pc = Steps[1]
    /\ \E a \in MainArgs : run = [NoRun EXCEPT !.args = a]
    /\ StyleIdle
    /\ MatchIdle
    /\ CopyIdle
    /\ ExtractIdle
    /\ ConvertIdle

\* file_footprint = ifcopenshell.open(args.input_footprint_file)
OpenFootprint ==
    /\ pc = "open_footprint"
    /\ pc' = StepOutcome(pc, OpenOutcome(run.args.footprint))
    /\ run' = RunAfter(pc, OpenOutcome(run.args.footprint))
    /\ UNCHANGED <<styleVars, matchVars, copyVars, extractVars, convertVars>>

\* file_target = ifcopenshell.open(args.input_target_file)
OpenTarget ==
    /\ pc = "open_target"
    /\ pc' = StepOutcome(pc, OpenOutcome(run.args.target))
    /\ run' = RunAfter(pc, OpenOutcome(run.args.target))
    /\ UNCHANGED <<styleVars, matchVars, copyVars, extractVars, convertVars>>

\* styles_raw = afry_bimshape_lib.load_style_settings(args.style_file)
LoadStyleSettings ==
    /\ pc = "load_style_settings"
    /\ pc' = StepOutcome(pc, LoadStyleSettingsOutcome(run.args.style_file))
    /\ run' = RunAfter(pc, LoadStyleSettingsOutcome(run.args.style_file))
    /\ styles_info' = IF run.args.style_file = "document" THEN run.args.document
                      ELSE styles_info
    /\ UNCHANGED <<attributes, matching_style, rule_log>>
    /\ UNCHANGED <<matchVars, copyVars, extractVars, convertVars>>

\* styles = afry_bimshape_lib.create_styles2(file_target, styles_raw)
CreateStyles2 ==
    /\ pc = "create_styles2"
    /\ pc' = StepOutcome(pc, AttributeOutcome(pc))
    /\ run' = RunAfter(pc, AttributeOutcome(pc))
    /\ UNCHANGED <<styleVars, matchVars, copyVars, extractVars, convertVars>>

MainNext == OpenFootprint \/ OpenTarget \/ LoadStyleSettings \/ CreateStyles2

SpecMain == MainInit /\ [][MainNext]_vars

----------------------------------------------------------------------------
(* Properties of main, under SpecMain *)

StepIndex(step) == CHOOSE i \in DOMAIN Steps : Steps[i] = step

LoadErrors == {"IOError", "FileNotFoundError", "ValueError"}

(* C12: the steps completed so far are an initial part of load (footprint  *)
(* file, target file, style configuration, styles), extract, match,        *)
(* reconcile, save, each at most once; the target file is written at most  *)
(* once and only after copy_matching_properties returned; when an input    *)
(* file or the style configuration failed to load the run is halted with   *)
(* no extraction done and nothing written; and no step is left out: a run  *)
(* ends short of the save only when an input file or the style             *)
(* configuration failed to load.                                           *)
C12_StepsInOrder ==
    /\ Len(run.done) <= Len(Steps)
    /\ \A i \in DOMAIN run.done : run.done[i] = Steps[i]
    /\ run.written <= 1
    /\ run.written = 1 => Len(run.done) >= StepIndex("copy_matching_properties")
    /\ run.error \in LoadErrors =>
        /\ pc = "halted"
        /\ run.written = 0
        /\ Len(run.done) < StepIndex("get_geometry_and_location")
    /\ pc = "halted" => run.error \in LoadErrors

(* C13: a run whose two input files open and whose style file holds a      *)
(* style document never halts on an exception: it goes on to the Saved     *)
(* state.                                                                  *)
C13_RunReachesSaved ==
    (/\ run.args # <<>>
     /\ run.args.footprint = "opens"
     /\ run.args.target = "opens"
     /\ run.args.style_file = "document")
        => pc # "halted"

----------------------------------------------------------------------------
(* get_geometry_and_location and get_shape_bbox_centroid,                  *)
(* src/copy_properties.py:45-96, and get_geometry_bounds, lines 37-43.     *)
(* A product is [id, opening, shape]: opening says it is an                *)
(* IfcOpeningElement, shape is [raises, verts]: create_shape raises        *)
(* RuntimeError, or returns a tessellation with the vertices verts, a      *)
(* sequence of <<x, y, z>>.                                                *)
(* The mean of the vertices is kept exact, as their sum and their number.  *)

MaxProducts == 3

ProductIds == <<"p1", "p2", "p3", "p4">>

\* no vertex, one vertex, two vertices
VertexLists == { <<>>, <<<<1, 1, 1>>>>, <<<<0, 3, 0>>, <<4, 1, 2>>>> }

Shapes ==
    {[raises |-> TRUE, verts |-> <<>>]} \cup {[raises |-> FALSE, verts |-> v] : v \in VertexLists}

ProductLists ==
    { [i \in DOMAIN k |-> [id |-> ProductIds[i], opening |-> k[i].opening, shape |-> k[i].shape]] :
        k \in SeqsUpTo([opening : BOOLEAN, shape : Shapes], MaxProducts) }

Min(S) == CHOOSE x \in S : \A y \in S : x <= y
Max(S) == CHOOSE x \in S : \A y \in S : y <= x
Column(verts, c) == {verts[i][c] : i \in DOMAIN verts}

RECURSIVE SumColumn(_, _)
SumColumn(verts, c) ==
    IF verts = <<>> THEN 0 ELSE verts[1][c] + SumColumn(Tail(verts), c)

\* verts.mean(axis=0): of no vertex it is nan, with a warning and no exception
Mean(verts) == [sum |-> <<SumColumn(verts, 1), SumColumn(verts, 2), SumColumn(verts, 3)>>,
                n |-> Len(verts)]

\* get_geometry_bounds: [mins[0], mins[1], mins[2], maxs[0], maxs[1], maxs[2]]
GetGeometryBounds(verts) ==
    << Min(Column(verts, 1)), Min(Column(verts, 2)), Min(Column(verts, 3)),
       Max(Column(verts, 1)), Max(Column(verts, 2)), Max(Column(verts, 3)) >>

(* The exception the try block ends with for one product, "" for none:     *)
(* create_shape raises RuntimeError, and verts.min(axis=0) of an array     *)
(* without rows raises ValueError.                                         *)
ShapeOutcome(shape) ==
    IF shape.raises THEN "RuntimeError"
    ELSE IF shape.verts = <<>> THEN "ValueError"
    ELSE ""

RECURSIVE ExtractLoop(_, _, _)

\* the try block for product i, exc being what it ends with: only RuntimeError is caught
AfterShape(prods, i, data, exc) ==
    IF exc = ""
    THEN ExtractLoop(prods, i + 1,
                     DictSet(data, prods[i].id,
                             [center |-> Mean(prods[i].shape.verts),
                              bounds |-> GetGeometryBounds(prods[i].shape.verts)]))
    ELSE IF exc = "RuntimeError" THEN ExtractLoop(prods, i + 1, data)
    ELSE [data |-> data, exc |-> exc]

\* for product in ifc_file.by_type('IfcProduct'): ... from product i on
ExtractLoop(prods, i, data) ==
    IF i > Len(prods) THEN [data |-> data, exc |-> ""]
    ELSE IF prods[i].opening THEN ExtractLoop(prods, i + 1, data)
    ELSE AfterShape(prods, i, data, ShapeOutcome(prods[i].shape))

GetGeometryAndLocation(prods) == ExtractLoop(prods, 1, <<>>)

\* the same statements as get_geometry_and_location, lines 70-96
GetShapeBboxCentroid(prods) == ExtractLoop(prods, 1, <<>>)

ExtractInit ==
    /\ products \in ProductLists
    /\ geometry_data = NoGeometry
    /\ pc = "ready"
    /\ StyleIdle
    /\ MatchIdle
    /\ CopyIdle
    /\ MainIdle
    /\ ConvertIdle

CallGetGeometryAndLocation ==
    /\ pc = "ready"
    /\ pc' = "returned"
    /\ LET g == GetGeometryAndLocation(products)
       IN  geometry_data' = [fn |-> "get_geometry_and_location", data |-> g.data, exc |-> g.exc]
    /\ UNCHANGED <<products, run, styleVars, matchVars, copyVars, convertVars>>

CallGetShapeBboxCentroid ==
    /\ pc = "ready"
    /\ pc' = "returned"
    /\ LET g == GetShapeBboxCentroid(products)
       IN  geometry_data' = [fn |-> "get_shape_bbox_centroid", data |-> g.data, exc |-> g.exc]
    /\ UNCHANGED <<products, run, styleVars, matchVars, copyVars, convertVars>>

ExtractNext == CallGetGeometryAndLocation \/ CallGetShapeBboxCentroid

SpecExtract == ExtractInit /\ [][ExtractNext]_vars

----------------------------------------------------------------------------
(* Properties of the Geometry Extractor, under SpecExtract *)

(* C14: the call returns, and the ids of its records are exactly the ids   *)
(* of the products that are no opening element and whose geometry          *)
(* processing succeeded; a product without vertices counts as a geometry   *)
(* failure that skips only that product.                                   *)
C14_OneRecordPerGoodProduct ==
    pc = "returned" =>
        /\ geometry_data.exc = ""
        /\ {geometry_data.data[k].key : k \in DOMAIN geometry_data.data}
            = {products[i].id : i \in {j \in DOMAIN products :
                    /\ ~products[j].opening
                    /\ ~products[j].shape.raises
                    /\ products[j].shape.verts # <<>>}}

----------------------------------------------------------------------------
(* Properties of the reconcile steps, under SpecReconcile *)

SourcesWithoutCandidate == {i \in DOMAIN overlapping : overlapping[i].matches = <<>>}

ReportedIds == {copy_result.reported[k] : k \in DOMAIN copy_result.reported}

PairsCalled == {copy_result.pairs[k] : k \in DOMAIN copy_result.pairs}

(* C15: the mapping returned by find_overlapping_bbox has exactly the       *)
(* source records' ids as keys, and after copy_matching_properties every   *)
(* source of the mapping without a candidate has been reported, nothing    *)
(* was copied from it, and the loop went on to the source after it: the    *)
(* first candidate of that source was handed to copy_properties.           *)
C15_EmptySourceReported ==
    /\ pc \in {"matched", "returned"} =>
        /\ Len(overlapping) = Len(bboxes)
        /\ \A i \in DOMAIN bboxes : overlapping[i].id = bboxes[i].id
    /\ pc = "returned" =>
        /\ ReportedIds = {overlapping[i].id : i \in SourcesWithoutCandidate}
        /\ \A i \in SourcesWithoutCandidate : \A q \in PairsCalled : q[1] # overlapping[i].id
        /\ \A i \in SourcesWithoutCandidate :
                (i + 1 \in DOMAIN overlapping /\ overlapping[i + 1].matches # <<>>)
                    => <<overlapping[i + 1].id, overlapping[i + 1].matches[1].id>> \in PairsCalled

----------------------------------------------------------------------------
(* Distances recorded by the Overlap Matcher, under SpecMatch *)

\* twice the planar centre of a box: (xmin + xmax, ymin + ymax)
Centre2(B) == <<B[1] + B[4], B[2] + B[5]>>

\* four times the squared planar distance between a point and a box centre
PlanarSq4(C, B) ==
    (2 * C[1] - Centre2(B)[1]) * (2 * C[1] - Centre2(B)[1])
        + (2 * C[2] - Centre2(B)[2]) * (2 * C[2] - Centre2(B)[2])

\* the (source, candidate position, target) triples of the returned mapping
Candidates ==
    { t \in (DOMAIN overlapping) \X (1..MaxTargets) \X (DOMAIN centroids) :
        /\ t[2] \in DOMAIN overlapping[t[1]].matches
        /\ overlapping[t[1]].matches[t[2]].id = centroids[t[3]].id }

(* C17: the distance recorded for a candidate is the planar Euclidean      *)
(* distance between the target centroid and the centre of the source box   *)
(* ((xmin+xmax)/2, (ymin+ymax)/2): it is zero exactly when the centroid's  *)
(* x and y are the centre's, and two candidates whose boxes and centroids  *)
(* agree in x and y have the same distance whatever their z coordinates.   *)
C17_PlanarDistance ==
    pc = "returned" =>
        \A t \in Candidates :
            LET B == bboxes[t[1]].bounds
                C == centroids[t[3]].centroid
                d == overlapping[t[1]].matches[t[2]].dist
            IN  /\ d = PlanarSq4(C, B)
                /\ d = 0 <=> (2 * C[1] = B[1] + B[4] /\ 2 * C[2] = B[2] + B[5])
                /\ \A u \in Candidates :
                    LET B2 == bboxes[u[1]].bounds
                        C2 == centroids[u[3]].centroid
                    IN  (/\ B2[1] = B[1] /\ B2[2] = B[2] /\ B2[4] = B[4] /\ B2[5] = B[5]
                         /\ C2[1] = C[1] /\ C2[2] = C[2])
                            => overlapping[u[1]].matches[u[2]].dist = d

\* C17, its case: a box with a height, two centroids at its planar centre at different heights, both at distance 0, and a candidate off the centre
C17_Witness ==
    /\ pc = "returned"
    /\ \E t, u \in Candidates :
        /\ t[1] = u[1]
        /\ bboxes[t[1]].bounds = <<0, 0, 0, 4, 4, 2>>
        /\ centroids[t[3]].centroid = <<2, 2, 2>>
        /\ centroids[u[3]].centroid = <<2, 2, 3>>
        /\ overlapping[t[1]].matches[t[2]].dist = 0
        /\ overlapping[u[1]].matches[u[2]].dist = 0
    /\ \E t \in Candidates : overlapping[t[1]].matches[t[2]].dist > 0

\* the (source id, target id) pairs of the mapping: target is a candidate of source
CandidatePairs ==
    UNION { { <<overlapping[i].id, overlapping[i].matches[k].id>> :
                k \in DOMAIN overlapping[i].matches } : i \in DOMAIN overlapping }

\* the relations of source element s the toolkit copies without raising: named, not reserved, with a scalar property
CopyableRels(s) ==
    { r \in DOMAIN source_elems[s].IsDefinedBy :
        LET def == source_elems[s].IsDefinedBy[r].RelatingPropertyDefinition
        IN  /\ source_elems[s].IsDefinedBy[r].is_a = "IfcRelDefinesByProperties"
            /\ def.is_a = "IfcPropertySet"
            /\ def.Name.t = "str"
            /\ ~HasReservedPrefix(def.Name.s)
            /\ HasSingleValue(def)
            /\ faults[s][r] = "none" }

\* the number of property sets target t is due: those of every source it is a candidate of
RECURSIVE SetsDue(_, _)
SetsDue(t, n) ==
    IF n = 0 THEN 0
    ELSE SetsDue(t, n - 1) +
         (IF <<source_elems[n].id, t>> \in CandidatePairs
          THEN Cardinality(CopyableRels(n)) ELSE 0)

\* the relations created by the run that attach a property set to target t
RelsCreatedFor(t) ==
    { n \in DOMAIN CreatedRels : \E o \in DOMAIN CreatedRels[n].RelatedObjects :
                                    CreatedRels[n].RelatedObjects[o] = t }

(* C18: copy_properties is called once for every (source, target)          *)
(* candidate pair of the mapping and for nothing else, the pairs of one     *)
(* source in the order of its candidate list, and every target has         *)
(* received the non-reserved property sets of every source it is a         *)
(* candidate of.                                                           *)
C18_EveryCandidateProcessed ==
    pc = "returned" =>
        /\ PairsCalled = CandidatePairs
        /\ Len(copy_result.pairs) = Cardinality(CandidatePairs)
        /\ \A i \in DOMAIN overlapping : \A k1, k2 \in DOMAIN overlapping[i].matches :
                k1 < k2 =>
                    PositionIn(copy_result.pairs, <<overlapping[i].id, overlapping[i].matches[k1].id>>)
                        < PositionIn(copy_result.pairs, <<overlapping[i].id, overlapping[i].matches[k2].id>>)
        /\ \A j \in DOMAIN target_elems :
                Cardinality(RelsCreatedFor(target_elems[j].id))
                    = SetsDue(target_elems[j].id, Len(source_elems))

\* the target elements a style was attached to during the run
StyledElements ==
    { CreatedSince(target_file.styled, file_before.styled)[n].element :
        n \in DOMAIN CreatedSince(target_file.styled, file_before.styled) }

(* C19: when copy_matching_properties returns, the count it reports        *)
(* ("Applied styles to N elements") is the number of distinct target       *)
(* elements a style was attached to during the run, and so is at most the  *)
(* number of target elements.                                              *)
C19_CountsDistinctElements ==
    (pc = "returned" /\ copy_result.exc = "") =>
        /\ copy_result.styled_count = Cardinality(StyledElements)
        /\ copy_result.styled_count <= Len(target_elems)

\* the relations among the first n of the file that name element t
RelsNaming(t, n) ==
    { r \in 1..n : \E o \in DOMAIN target_file.rels[r].RelatedObjects :
                        target_file.rels[r].RelatedObjects[o] = t }

\* the property held at position p of the set of relation r
PropAt(r, p) ==
    target_file.props[target_file.psets[target_file.rels[r].RelatingPropertyDefinition].HasProperties[p]]

\* the single-value properties with a value attached to t by the first n relations: <<relation, position>>
ValuedProps(t, n) ==
    { q \in RelsNaming(t, n) \X (1..MaxPsets) :
        /\ q[2] \in DOMAIN target_file.psets[target_file.rels[q[1]].RelatingPropertyDefinition].HasProperties
        /\ PropAt(q[1], q[2]).is_a = "IfcPropertySingleValue"
        /\ PropAt(q[1], q[2]).NominalValue.t # "none" }

\* q is read no later than q2
ReadBefore(q, q2) == q[1] < q2[1] \/ (q[1] = q2[1] /\ q[2] <= q2[2])

\* the resolutions that attached a style, as the entries they added to the file
RECURSIVE AppliedStyles(_)
AppliedStyles(res) ==
    IF res = <<>> THEN <<>>
    ELSE LET e == res[Len(res)]
             before == AppliedStyles(SubSeq(res, 1, Len(res) - 1))
         IN  IF e.applied
             THEN Append(before, [element |-> e.element, style |-> e.matching_style.val])
             ELSE before

(* C20: every call of apply_style_to_element in the reconcile run resolves *)
(* the style from the attribute set that holds, for every name of a        *)
(* single-value property with a value attached to the target element at    *)
(* that moment (its own earlier sets, reserved-prefixed ones included, and *)
(* the copied ones), the value of the property read last, and nothing      *)
(* else; the styles attached are the ones so resolved; a target element    *)
(* that is a candidate of no source is never styled and receives no set.   *)
C20_StyleFromAttachedProperties ==
    pc = "returned" =>
        /\ \A n \in DOMAIN copy_result.resolved :
            LET e == copy_result.resolved[n]
                V == ValuedProps(e.element, e.rels)
            IN  /\ DistinctKeys(e.attributes)
                /\ \A q \in V : HasKey(e.attributes, PropAt(q[1], q[2]).Name)
                /\ \A x \in DOMAIN e.attributes :
                    \E q \in V :
                        /\ PropAt(q[1], q[2]).Name = e.attributes[x].key
                        /\ PropAt(q[1], q[2]).NominalValue = e.attributes[x].value
                        /\ \A q2 \in V : PropAt(q2[1], q2[2]).Name = e.attributes[x].key
                                            => ReadBefore(q2, q)
                /\ e.matching_style = GetMatchingStyle(e.attributes, styles_info).res
                /\ \E q \in CandidatePairs : q[2] = e.element
        /\ CreatedSince(target_file.styled, file_before.styled) = AppliedStyles(copy_result.resolved)
        /\ \A j \in DOMAIN target_elems :
            (\A q \in CandidatePairs : q[2] # target_elems[j].id) =>
                /\ RelsCreatedFor(target_elems[j].id) = {}
                /\ target_elems[j].id \notin StyledElements

\* C20, its case: t1 is styled first from its own reserved-prefixed set alone (type = 2), then from that set and a copied one whose type = "1" is read last and whose valueless type is skipped; t2 is a candidate of no source
C20_Witness ==
    /\ pc = "returned"
    /\ file_before = OwnReservedFile
    /\ \E n1, n2 \in DOMAIN copy_result.resolved :
        /\ n1 < n2
        /\ copy_result.resolved[n1].element = "t1"
        /\ copy_result.resolved[n1].rels = Len(file_before.rels)
        /\ copy_result.resolved[n1].attributes = <<[key |-> k_type, value |-> IntV(2)]>>
        /\ copy_result.resolved[n1].applied
        /\ copy_result.resolved[n2].element = "t1"
        /\ copy_result.resolved[n2].attributes = <<[key |-> k_type, value |-> StrV(<<"1">>)]>>
        /\ copy_result.resolved[n2].applied
        /\ \E q \in RelsNaming("t1", copy_result.resolved[n2].rels) \X (1..MaxPsets) :
                /\ q[2] \in DOMAIN target_file.psets[target_file.rels[q[1]].RelatingPropertyDefinition].HasProperties
                /\ PropAt(q[1], q[2]).NominalValue.t = "none"
    /\ \A q \in CandidatePairs : q[2] # "t2"
    /\ RelsCreatedFor("t2") = {}

----------------------------------------------------------------------------
(* gis2bim: the volume creators of src/afry_bimshape_lib.py:153-489 and    *)
(* process_shapefiles, src/gis2bim.py:75-107.  Of the entities a creator   *)
(* adds to the file the model keeps the building element, the property set *)
(* with its properties, the two relations and the style attached to the    *)
(* shape; placements, profiles and solids are left out.                    *)

MaxShapefiles == 2
MaxRows == 2

\* "FKB egenskaper"
n_FKB_egenskaper == <<"F", "K", "B", " ", "e", "g", "e", "n", "s", "k", "a", "p", "e", "r">>

\* for key, value in attributes.items(): if value is not None: createIfcPropertySingleValue(key, None, IfcLabel(str(value)), None)
RECURSIVE PropertyValues(_)
PropertyValues(attrs) ==
    IF attrs = <<>> THEN <<>>
    ELSE LET last == attrs[Len(attrs)]
             before == PropertyValues(SubSeq(attrs, 1, Len(attrs) - 1))
         IN  IF last.value.t # "none"
             THEN Append(before, CreateIfcPropertySingleValue(last.key, NoneV,
                                                              StrV(PyStr(last.value)), NoneV))
             ELSE before

\* create_property_set with its properties given: the set is created whether or not it has a property
AddPropertySet(file, property_values) ==
    [file EXCEPT
        !.props = @ \o property_values,
        !.psets = Append(@, CreateIfcPropertySet(StrV(n_FKB_egenskaper), NoneV,
                        [i \in 1..Len(property_values) |-> Len(file.props) + i]))]

create_property_set(file, attrs) == AddPropertySet(file, PropertyValues(attrs))

\* createIfcBuildingElementProxy, then createIfcRelContainedInSpatialStructure(RelatingStructure=storey, RelatedElements=[element])
create_building_element_proxy(file, shape) ==
    [file EXCEPT
        !.elements = Append(@, [is_a |-> "IfcBuildingElementProxy", Representation |-> shape]),
        !.contained = Append(@, [is_a |-> "IfcRelContainedInSpatialStructure",
                                 RelatingStructure |-> "storey",
                                 RelatedElements |-> <<Len(file.elements) + 1>>])]

\* createIfcRelDefinesByProperties(guid, owner_history, None, None, [element], property_set)
assign_property_set(file, element, property_set) ==
    [file EXCEPT !.rels = Append(@, CreateIfcRelDefinesByProperties(<<element>>, property_set))]

\* property set, element and relation, in the order of the three calls; the set and the element are the last created
CreateElement(file, shape) ==
    assign_property_set(create_building_element_proxy(file, shape),
                        Len(file.elements) + 1, Len(file.psets))

(* The block "Apply style based on attributes" of the three creators, r     *)
(* being the outcome of get_matching_style, called outside the try block:  *)
(* its exception leaves the creator.  A name returned is a key of styles;  *)
(* assign_representation_styles is called inside the try block, and when   *)
(* it raises (fails) the exception is caught, "Failed to apply style" is   *)
(* printed and nothing is attached to the shape.                           *)
StyleShape(file, shape, r, fails) ==
    IF r.kind = "raise" THEN [file |-> file, exc |-> r.val, unstyled |-> FALSE]
    \* if matching_style and ...: neither None nor the empty name
    ELSE IF r = RetNone \/ r.val = "" THEN [file |-> file, exc |-> "", unstyled |-> FALSE]
    ELSE IF fails THEN [file |-> file, exc |-> "", unstyled |-> TRUE]
    ELSE [file |-> [file EXCEPT !.styled = Append(@, [shape |-> shape, style |-> r.val])],
          exc |-> "", unstyled |-> FALSE]

\* what follows the style block of create_volume_from_point, s being its outcome
PointAfterStyle(s, shape, attrs) ==
    IF s.exc # "" THEN s
    ELSE [s EXCEPT !.file = CreateElement(create_property_set(s.file, attrs), shape)]

\* create_volume_from_point: the style is resolved before the property set and the element are created
create_volume_from_point(file, shape, attrs, styles, fails) ==
    PointAfterStyle(StyleShape(file, shape, GetMatchingStyle(attrs, styles).res, fails),
                    shape, attrs)

\* create_volume_from_polygon: the property set and the element are created before the style is resolved
create_volume_from_polygon(file, shape, attrs, styles, fails) ==
    StyleShape(CreateElement(create_property_set(file, attrs), shape), shape,
               GetMatchingStyle(attrs, styles).res, fails)

\* create_volume_from_linestring: as for a polygon
create_volume_from_linestring(file, shape, attrs, styles, fails) ==
    StyleShape(CreateElement(create_property_set(file, attrs), shape), shape,
               GetMatchingStyle(attrs, styles).res, fails)

(* The two loops of process_shapefiles from row r of shapefile f on.  st   *)
(* is [file, exc, reported, unstyled, rows]: reported lists the geometry   *)
(* types printed as not supported, unstyled the shapes for which "Failed   *)
(* to apply style" was printed, rows counts the rows the loop has taken    *)
(* up, exc is the exception that left the function.                        *)
RECURSIVE ProcessLoop(_, _, _, _, _)

\* what follows a creator, c being its outcome
AfterVolume(files, styles, st, f, r, c) ==
    IF c.exc # "" THEN [st EXCEPT !.file = c.file, !.exc = c.exc]
    ELSE ProcessLoop(files, styles,
                     [st EXCEPT !.file = c.file,
                                !.unstyled = IF c.unstyled THEN Append(@, st.rows) ELSE @],
                     f, r + 1)

\* lines 81-106: one row; a row without geometry has geometry None, and None has no geom_type
ProcessRow(files, styles, st, f, r, row) ==
    CASE ~row.geometry -> [st EXCEPT !.exc = "AttributeError"]
      [] row.geometry /\ row.geom_type = "Point" ->
            AfterVolume(files, styles, st, f, r,
                        create_volume_from_point(st.file, st.rows, row.attributes, styles,
                                                 row.attach_fails))
      [] row.geometry /\ row.geom_type = "LineString" ->
            AfterVolume(files, styles, st, f, r,
                        create_volume_from_linestring(st.file, st.rows, row.attributes, styles,
                                                      row.attach_fails))
      [] row.geometry /\ row.geom_type = "Polygon" ->
            AfterVolume(files, styles, st, f, r,
                        create_volume_from_polygon(st.file, st.rows, row.attributes, styles,
                                                   row.attach_fails))
      [] OTHER ->
            ProcessLoop(files, styles, [st EXCEPT !.reported = Append(@, row.geom_type)], f, r + 1)

ProcessLoop(files, styles, st, f, r) ==
    IF f > Len(files) THEN st
    ELSE IF r > Len(files[f]) THEN ProcessLoop(files, styles, st, f + 1, 1)
    ELSE ProcessRow(files, styles, [st EXCEPT !.rows = @ + 1], f, r, files[f][r])

process_shapefiles(file, files, styles) ==
    ProcessLoop(files, styles,
                [file |-> file, exc |-> "", reported |-> <<>>, unstyled |-> <<>>, rows |-> 0],
                1, 1)

(* create_styles, src/afry_bimshape_lib.py:501-539.  A style document is   *)
(* the JSON object of the style file in the order of its keys, each entry  *)
(* [name, has, color, attribute, values]: has is the set of keys the       *)
(* entry's object holds, color the list under "color".  The surface style  *)
(* is added to the file before the entry's keys are read, so an entry      *)
(* that lacks a key leaves its style in the file.                          *)
add_style(file, style_name) ==
    [file EXCEPT !.styles = Append(@, [Name |-> "fkb_bygning_" \o style_name, shading |-> <<>>])]

\* r, g, b = rgb[0] / 255.0, rgb[1] / 255.0, rgb[2] / 255.0, each kept as <<numerator, denominator>>
add_surface_style(file, style_name, rgb) ==
    [file EXCEPT !.styles[Len(file.styles)].shading =
        <<[Name |-> "FKB_bygning_" \o style_name,
           Red |-> <<rgb[1], 255>>, Green |-> <<rgb[2], 255>>, Blue |-> <<rgb[3], 255>>]>>]

RECURSIVE CreateStylesLoop(_, _, _, _)

\* lines 514-537 for entry i, the style being added already
CreateStyle(file, styles_raw, i, styles) ==
    LET style_info == styles_raw[i]
        out(exc) == [file |-> file, styles |-> styles, exc |-> exc]
    IN  IF "color" \notin style_info.has THEN out("KeyError")
        ELSE IF Len(style_info.color) < 3 THEN out("IndexError")
        ELSE IF "attribute" \notin style_info.has \/ "values" \notin style_info.has
             THEN [file |-> add_surface_style(file, style_info.name, style_info.color),
                   styles |-> styles, exc |-> "KeyError"]
        ELSE CreateStylesLoop(add_surface_style(file, style_info.name, style_info.color),
                              styles_raw, i + 1,
                              Append(styles, [name |-> style_info.name,
                                              attribute |-> style_info.attribute,
                                              values |-> style_info.values]))

CreateStylesLoop(file, styles_raw, i, styles) ==
    IF i > Len(styles_raw) THEN [file |-> file, styles |-> styles, exc |-> ""]
    ELSE CreateStyle(add_style(file, styles_raw[i].name), styles_raw, i, styles)

create_styles(file, styles_raw) == CreateStylesLoop(file, styles_raw, 1, <<>>)

(* Inputs of the conversion: rows as gdf.iterrows() yields them, a row     *)
(* being its geometry (FALSE when row.geometry is None), the geometry's    *)
(* type and the dict of its other columns.                                 *)
Row(geom_type, attrs) ==
    [geometry |-> TRUE, geom_type |-> geom_type, attributes |-> attrs, attach_fails |-> FALSE]

\* {type: 1}, {type: "abc", kind: None}, {type: "inf"}
a_type_1 == <<[key |-> k_type, value |-> IntV(1)]>>
a_type_abc == <<[key |-> k_type, value |-> StrV(<<"a", "b", "c">>)], [key |-> k_kind, value |-> NoneV]>>
a_type_inf == <<[key |-> k_type, value |-> StrV(<<"i", "n", "f">>)]>>

(* supported rows, a MultiPolygon row, rows whose type value is "inf", a   *)
(* row without geometry, and rows for whose shape the toolkit fails to     *)
(* attach a style                                                          *)
Rows ==
    { Row("Point", a_type_1), Row("LineString", a_type_abc), Row("Polygon", a_type_1),
      Row("MultiPolygon", a_type_1), Row("Point", a_type_inf), Row("Polygon", a_type_inf),
      [Row("", a_type_1) EXCEPT !.geometry = FALSE],
      [Row("Point", a_type_1) EXCEPT !.attach_fails = TRUE],
      [Row("Polygon", a_type_1) EXCEPT !.attach_fails = TRUE] }

Shapefiles == SeqsUpTo(SeqsUpTo(Rows, MaxRows), MaxShapefiles)

StyleEntry(name, attribute, values) ==
    [name |-> name, has |-> {"color", "attribute", "values"}, color |-> <<255, 0, 128>>,
     attribute |-> attribute, values |-> values]

(* the style documents: {"A": type in [1]}, {"A": type in ["abc"], "B":    *)
(* type in []}, and documents with an entry that lacks "color", has a      *)
(* color of two numbers, or lacks "values"                                 *)
ConvertStyles ==
    { <<StyleEntry(StyleNames[1], k_type, <<IntV(1)>>)>>,
      <<StyleEntry(StyleNames[1], k_type, <<StrV(<<"a", "b", "c">>)>>),
        StyleEntry(StyleNames[2], k_type, <<>>)>>,
      <<[StyleEntry(StyleNames[1], k_type, <<IntV(1)>>) EXCEPT !.has = @ \ {"color"}]>>,
      <<StyleEntry(StyleNames[1], k_type, <<IntV(1)>>),
        [StyleEntry(StyleNames[2], k_type, <<>>) EXCEPT !.color = <<255, 0>>]>>,
      <<[StyleEntry(StyleNames[1], k_type, <<IntV(1)>>) EXCEPT !.has = @ \ {"values"}]>> }

ConvertInit ==
    /\ pc = "setup"
    /\ shapefiles \in Shapefiles
    /\ ifc_file = NewIfcFile
    /\ \/ \E f \in {"missing", "invalid"} :
            conversion = [NoConversion EXCEPT !.style_file = f]
       \/ \E d \in ConvertStyles :
            conversion = [NoConversion EXCEPT !.style_file = "document", !.document = d]
    /\ StyleIdle
    /\ MatchIdle
    /\ CopyIdle
    /\ ExtractIdle
    /\ MainIdle

\* what load_style_settings and create_styles leave behind, c being the outcome of create_styles
ConvertStylesCreated(load_exc, c) ==
    /\ pc' = IF load_exc = "" /\ c.exc = "" THEN "process" ELSE "halted"
    /\ ifc_file' = IF load_exc = "" THEN c.file ELSE ifc_file
    /\ styles_info' = IF load_exc = "" /\ c.exc = "" THEN c.styles ELSE styles_info
    /\ conversion' = [conversion EXCEPT !.step = "setup",
                                        !.exc = IF load_exc # "" THEN load_exc ELSE c.exc]

\* gis2bim.main, lines 118-129: create_new_ifc_file, load_style_settings, create_styles, get_shapefiles
ConvertSetup ==
    /\ pc = "setup"
    /\ ConvertStylesCreated(LoadStyleSettingsOutcome(conversion.style_file),
                            create_styles(ifc_file, conversion.document))
    /\ UNCHANGED shapefiles
    /\ UNCHANGED <<attributes, matching_style, rule_log>>
    /\ UNCHANGED <<matchVars, copyVars, extractVars, run>>

\* what process_shapefiles leaves behind, st being its outcome
ConvertProcessed(st) ==
    /\ pc' = IF st.exc = "" THEN "write" ELSE "halted"
    /\ ifc_file' = st.file
    /\ conversion' = [conversion EXCEPT !.step = "process", !.exc = st.exc,
                                        !.reported = st.reported, !.unstyled = st.unstyled,
                                        !.rows = st.rows]

\* gis2bim.main, line 132: ifc_file = process_shapefiles(ifc_file, context, owner_history, storey, shapefile_paths, styles)
ConvertProcess ==
    /\ pc = "process"
    /\ ConvertProcessed(process_shapefiles(ifc_file, shapefiles, styles_info))
    /\ UNCHANGED <<shapefiles, styleVars, matchVars, copyVars, extractVars, run>>

\* gis2bim.main, lines 135-140: ifc_file.write(output_path)
ConvertWrite ==
    /\ pc = "write"
    /\ pc' = "saved"
    /\ conversion' = [conversion EXCEPT !.step = "write", !.written = @ + 1]
    /\ UNCHANGED <<shapefiles, ifc_file, styleVars, matchVars, copyVars, extractVars, run>>

ConvertNext == ConvertSetup \/ ConvertProcess \/ ConvertWrite

SpecConvert == ConvertInit /\ [][ConvertNext]_vars

----------------------------------------------------------------------------
(* Properties of the conversion, under SpecConvert *)

\* the rows of all shapefiles, in the order the two loops take them up
RECURSIVE RowsOf(_)
RowsOf(files) == IF files = <<>> THEN <<>> ELSE Head(files) \o RowsOf(Tail(files))

AllRows == RowsOf(shapefiles)

\* the positions of the rows whose geometry is a Point, a LineString or a Polygon
SupportedRows ==
    {i \in DOMAIN AllRows :
        AllRows[i].geometry /\ AllRows[i].geom_type \in {"Point", "LineString", "Polygon"}}

IsOtherRow(row) == ~row.geometry \/ row.geom_type \notin {"Point", "LineString", "Polygon"}

\* the geometry types of the other rows, in order
OtherTypes ==
    [i \in DOMAIN SelectSeq(AllRows, IsOtherRow) |-> SelectSeq(AllRows, IsOtherRow)[i].geom_type]

SetsAttachedTo(e) ==
    {r \in DOMAIN ifc_file.rels :
        \E o \in DOMAIN ifc_file.rels[r].RelatedObjects : ifc_file.rels[r].RelatedObjects[o] = e}

ContainmentsOf(e) ==
    {c \in DOMAIN ifc_file.contained :
        /\ ifc_file.contained[c].RelatingStructure = "storey"
        /\ \E o \in DOMAIN ifc_file.contained[c].RelatedElements :
                ifc_file.contained[c].RelatedElements[o] = e}

(* C21: once process_shapefiles is called, the conversion ends with the    *)
(* output file written exactly once after every row of every shapefile has *)
(* been taken up; the file holds exactly one building element for every    *)
(* Point, LineString or Polygon row and none for any other row, each       *)
(* element with exactly one property set attached and exactly one          *)
(* containment relation to the storey, and every other row has been        *)
(* reported.                                                               *)
C21_OneElementPerSupportedRow ==
    (pc \in {"saved", "halted"} /\ conversion.step \in {"process", "write"}) =>
        /\ pc = "saved"
        /\ conversion.written = 1
        /\ conversion.rows = Len(AllRows)
        /\ Len(ifc_file.elements) = Cardinality(SupportedRows)
        /\ \A i \in SupportedRows :
                Cardinality({e \in DOMAIN ifc_file.elements :
                                ifc_file.elements[e].Representation = i}) = 1
        /\ \A e \in DOMAIN ifc_file.elements :
                /\ Cardinality(SetsAttachedTo(e)) = 1
                /\ Cardinality(ContainmentsOf(e)) = 1
        /\ Len(ifc_file.psets) = Len(ifc_file.elements)
        /\ Len(ifc_file.rels) = Len(ifc_file.elements)
        /\ Len(ifc_file.contained) = Len(ifc_file.elements)
        /\ conversion.reported = OtherTypes

====
